---- MODULE Spec2Model ----
(***************************************************************************)
(* CLItutor-Web shell session controller: the sentinel parser              *)
(* (SentinelCapture), the validation driver (App.handleCommand and the     *)
(* lesson operations around it) and the validator's guard rules.           *)
(*                                                                         *)
(* Serial text is a sequence of byte values (char codes), so that the      *)
(* character classes of the regular expressions are ranges of numbers.     *)
(* The two marker words __CLITUTOR_CMD_START__ and __CLITUTOR_CMD_END__    *)
(* are abbreviated to the one-byte words "S" and "E": the parser only      *)
(* compares them for equality, never looks inside them.                    *)
(* capturedChunks is kept as the concatenation of its entries: the code    *)
(* reads the list only through rawChunks.join("").                         *)
(***************************************************************************)
EXTENDS Integers, Sequences, FiniteSets, TLC

\* ------------------------------------------------------------------ bounds
MaxPieces == 2      \* pieces of VM output in one serial stream
MaxChunk == 13      \* bytes in one chunk handed to processOutput
MaxInputs == 2      \* lines and slash commands the user enters
MaxMsgs == 3        \* system messages queued in a run of the parser on its own
MaxResets == 1      \* calls of reset in a run of the parser on its own
MaxHints == 3       \* hints of one exercise
MaxHintCalls == 4   \* /hint commands entered on one exercise
MaxBaseXp == 50     \* base XP of an exercise
MaxRun == 130       \* bytes the VM writes without a newline
MaxExercises == 3   \* exercises of a lesson whose progress is restored
MaxTotalXp == 6600  \* total XP of a learner

\* ------------------------------------------------------------ byte values
SENTINEL_CHAR == 31     \* "\x1f"
LF == 10
CR == 13
TAB == 9
ESC == 27
BEL == 7
SPACE == 32
COLON == 58
SLASH == 47
LBRACKET == 91
RBRACKET == 93
Ch0 == 48
Ch9 == 57
CMD_START_SENTINEL == <<83>>
CMD_END_SENTINEL == <<69>>
HOME == <<SLASH, 104>>      \* "/home/student", abbreviated to "/h"

\* ------------------------------------------------------- sequence helpers
\* String.prototype.indexOf from a start index, 1-based; 0 when absent.
RECURSIVE IndexFrom(_, _, _)
IndexFrom(s, b, from) ==
    IF from > Len(s) THEN 0
    ELSE IF s[from] = b THEN from
    ELSE IndexFrom(s, b, from + 1)

IndexOf(s, b) == IndexFrom(s, b, 1)

StartsWith(s, p) == Len(s) >= Len(p) /\ SubSeq(s, 1, Len(p)) = p

Slice(s, from) == SubSeq(s, from, Len(s))

IsDigit(b) == b >= Ch0 /\ b <= Ch9

\* Length of the run of digits of s that starts at index i.
RECURSIVE DigitRun(_, _)
DigitRun(s, i) ==
    IF i <= Len(s) /\ IsDigit(s[i]) THEN 1 + DigitRun(s, i + 1) ELSE 0

\* parseInt(digits, 10) of a non-empty digit string.
RECURSIVE ParseInt(_)
ParseInt(d) ==
    IF Len(d) = 0 THEN 0
    ELSE 10 * ParseInt(SubSeq(d, 1, Len(d) - 1)) + (d[Len(d)] - Ch0)

\* ------------------------------------------------------------ SENTINEL_RE
\* The body alternative CMD_END:\d+:[^\x1f]* on a body without 0x1F.
IsEndBody(body) ==
    LET pre == CMD_END_SENTINEL \o <<COLON>>
        n == DigitRun(body, Len(pre) + 1)
    IN  /\ StartsWith(body, pre)
        /\ n >= 1
        /\ Len(body) >= Len(pre) + n + 1
        /\ body[Len(pre) + n + 1] = COLON

IsSentinelBody(body) == body = CMD_START_SENTINEL \/ IsEndBody(body)

\* Length of the match of SENTINEL_RE that starts at index i of data; 0 if none.
\* Neither alternative can step over a 0x1F, so the closing delimiter is the
\* first 0x1F after i.
MatchAt(data, i) ==
    IF i > Len(data) \/ data[i] # SENTINEL_CHAR THEN 0
    ELSE LET j == IndexFrom(data, SENTINEL_CHAR, i + 1)
         IN  IF j = 0 THEN 0
             ELSE IF IsSentinelBody(SubSeq(data, i + 1, j - 1)) THEN j - i + 1
             ELSE 0

\* SENTINEL_RE.exec with lastIndex = from - 1: index of the leftmost match at
\* or after from; 0 when there is none.
RECURSIVE FindMatch(_, _)
FindMatch(data, from) ==
    IF from > Len(data) THEN 0
    ELSE IF MatchAt(data, from) > 0 THEN from
    ELSE FindMatch(data, from + 1)

\* data.replace(SENTINEL_RE, ""): the input minus every byte inside a match.
RECURSIVE StripSentinels(_)
StripSentinels(data) ==
    LET i == FindMatch(data, 1)
    IN  IF i = 0 THEN data
        ELSE SubSeq(data, 1, i - 1) \o StripSentinels(Slice(data, i + MatchAt(data, i)))

\* Whether byte q of data and the byte after it lie inside one match of SENTINEL_RE.
RECURSIVE InsideMatchFrom(_, _, _)
InsideMatchFrom(data, from, q) ==
    LET i == FindMatch(data, from)
    IN  IF i = 0 \/ i > q THEN FALSE
        ELSE IF q < i + MatchAt(data, i) - 1 THEN TRUE
        ELSE InsideMatchFrom(data, i + MatchAt(data, i), q)

InsideMatch(data, q) == InsideMatchFrom(data, 1, q)

\* sentinelBody.split(":", 3): the first three colon-separated fields.
SplitField(body, k) ==
    LET c1 == IndexOf(body, COLON)
        c2 == IF c1 = 0 THEN 0 ELSE IndexFrom(body, COLON, c1 + 1)
        c3 == IF c2 = 0 THEN 0 ELSE IndexFrom(body, COLON, c2 + 1)
    IN  IF k = 1 THEN (IF c1 = 0 THEN body ELSE SubSeq(body, 1, c1 - 1))
        ELSE IF k = 2 THEN (IF c2 = 0 THEN Slice(body, c1 + 1) ELSE SubSeq(body, c1 + 1, c2 - 1))
        ELSE (IF c3 = 0 THEN Slice(body, c2 + 1) ELSE SubSeq(body, c2 + 1, c3 - 1))

\* ------------------------------------------------- cleaning of a capture
\* text.replace(ANSI_CSI_RE, ""): ESC [ [\x20-\x3f]* [\x40-\x7e]
RECURSIVE StripCsi(_)
StripCsi(t) ==
    IF Len(t) = 0 THEN t
    ELSE IF Len(t) >= 2 /\ t[1] = ESC /\ t[2] = LBRACKET
    THEN LET j == CHOOSE k \in 3..(Len(t) + 1) :
                      /\ \A m \in 3..(k - 1) : t[m] >= 32 /\ t[m] <= 63
                      /\ (k = Len(t) + 1 \/ ~(t[k] >= 32 /\ t[k] <= 63))
         IN  IF j <= Len(t) /\ t[j] >= 64 /\ t[j] <= 126
             THEN StripCsi(Slice(t, j + 1))
             ELSE <<t[1]>> \o StripCsi(Tail(t))
    ELSE <<t[1]>> \o StripCsi(Tail(t))

\* text.replace(ANSI_OSC_RE, ""): ESC ] [^\x07]* BEL
RECURSIVE StripOsc(_)
StripOsc(t) ==
    IF Len(t) = 0 THEN t
    ELSE IF Len(t) >= 2 /\ t[1] = ESC /\ t[2] = RBRACKET /\ IndexFrom(t, BEL, 3) > 0
    THEN StripOsc(Slice(t, IndexFrom(t, BEL, 3) + 1))
    ELSE <<t[1]>> \o StripOsc(Tail(t))

\* text.replace(CTRL_CHAR_RE, ""): [\x00-\x08\x0b-\x1f]
IsCtrl(b) == (b >= 0 /\ b <= 8) \/ (b >= 11 /\ b <= 31)

StripCtrl(t) == SelectSeq(t, LAMBDA b : ~IsCtrl(b))

\* Variant of StripFirstLine that leaves the LF in place.
StripFirstLineKeepingLF(t) ==
    LET nlIdx == IndexOf(t, LF)
    IN  IF nlIdx # 0 THEN Slice(t, nlIdx) ELSE t

\* Everything up to and including the first LF is removed, if there is one.
StripFirstLine(t) ==
    LET nlIdx == IndexOf(t, LF)
    IN  IF nlIdx # 0 THEN Slice(t, nlIdx + 1) ELSE t

CleanCapture(raw) == StripFirstLine(StripCtrl(StripOsc(StripCsi(raw))))

\* createCommandResult({stdout, returncode, cwd}); stderr stays "".
createCommandResult(stdout, returncode, cwd) ==
    [stdout |-> stdout, returncode |-> returncode, cwd |-> cwd]

\* ------------------------------------------------------ SentinelCapture
\* The fields of a freshly constructed SentinelCapture. onDisplay is "null"
\* until the App wires it ("term"), and "noop" while the App mutes it.
NewSentinelCapture ==
    [capturing |-> FALSE, capturedChunks |-> <<>>, cwd |-> HOME,
     skipCaptures |-> 1, ready |-> FALSE, pendingMessages |-> <<>>,
     displayQueue |-> <<>>, flushTimer |-> FALSE, partialBuffer |-> <<>>,
     partialTimer |-> FALSE, muteSerial |-> FALSE, commandWaiter |-> FALSE,
     onDisplay |-> "null"]

\* One invocation of a callback, in the order the code makes them.
DisplayCall(src, text) == [cb |-> "display", src |-> src, text |-> text]
CommandCall(result, raw) == [cb |-> "command", result |-> result, raw |-> raw]
ReadyCall == [cb |-> "ready"]

\* Variant of PushCapture that keeps the text whether or not a capture is open.
PushCaptureAlways(p, seg) == [p EXCEPT !.capturedChunks = @ \o seg]

\* Variant of PushCapture that drops text while the display is muted.
PushCaptureUnlessMuted(p, seg) ==
    IF p.capturing /\ ~p.muteSerial THEN [p EXCEPT !.capturedChunks = @ \o seg] ELSE p

\* if (this.capturing) this.capturedChunks.push(seg)
PushCapture(p, seg) ==
    IF p.capturing THEN [p EXCEPT !.capturedChunks = @ \o seg] ELSE p

\* Variant of PushDisplay that ignores the mute flag.
PushDisplayAlways(p, parts, seg) == parts \o seg

\* if (!this.muteSerial) displayParts.push(seg)
PushDisplay(p, parts, seg) == IF ~p.muteSerial THEN parts \o seg ELSE parts

\* Variant of FlushPendingCalls that writes the newest held message first.
FlushPendingCallsNewestFirst(p) ==
    [i \in 1..Len(p.pendingMessages) |->
        DisplayCall("sys", <<p.pendingMessages[Len(p.pendingMessages) + 1 - i]>>)]

\* flushPendingMessages: one display call per held message, then the list is emptied.
FlushPendingCalls(p) ==
    [i \in 1..Len(p.pendingMessages) |-> DisplayCall("sys", <<p.pendingMessages[i]>>)]

\* Variant of finishCapture that counts skipCaptures down at every CMD_END.
finishCaptureCountingDown(p, exitCode) ==
    LET raw == p.capturedChunks
        p2 == [p EXCEPT !.capturing = FALSE, !.capturedChunks = <<>>,
                        !.commandWaiter = FALSE, !.skipCaptures = @ - 1]
    IN  IF ~p2.ready
        THEN [p |-> [p2 EXCEPT !.ready = TRUE, !.pendingMessages = <<>>],
              skipped |-> TRUE, result |-> <<>>, raw |-> raw,
              calls |-> FlushPendingCalls(p2) \o <<ReadyCall>>]
        ELSE [p |-> p2, skipped |-> TRUE, result |-> <<>>, raw |-> raw,
              calls |-> <<>>]

\* finishCapture: [p, skipped, result, raw, calls]
finishCapture(p, exitCode) ==
    LET raw == p.capturedChunks
        p1 == [p EXCEPT !.capturing = FALSE, !.capturedChunks = <<>>,
                        !.commandWaiter = FALSE]
    IN  IF p1.skipCaptures > 0
        THEN LET p2 == [p1 EXCEPT !.skipCaptures = @ - 1]
             IN  IF ~p2.ready
                 THEN [p |-> [p2 EXCEPT !.ready = TRUE, !.pendingMessages = <<>>],
                       skipped |-> TRUE, result |-> <<>>, raw |-> raw,
                       calls |-> FlushPendingCalls(p2) \o <<ReadyCall>>]
                 ELSE [p |-> p2, skipped |-> TRUE, result |-> <<>>, raw |-> raw,
                       calls |-> <<>>]
        ELSE [p |-> p1, skipped |-> FALSE,
              result |-> createCommandResult(CleanCapture(raw), exitCode, p1.cwd),
              raw |-> raw, calls |-> <<>>]

\* The CMD_START branch of processOutput.
OnCmdStart(p) ==
    [p EXCEPT !.muteSerial = FALSE, !.capturing = TRUE, !.capturedChunks = <<>>]

\* The CMD_END branch of processOutput: parse exit code and cwd, finish the capture.
OnCmdEnd(p, body) ==
    LET exitCode == ParseInt(SplitField(body, 2))
        newCwd == SplitField(body, 3)
    IN  finishCapture([p EXCEPT !.cwd = newCwd], exitCode)

\* The while loop over the matches of SENTINEL_RE in data. acc carries the
\* loop's locals: lastEnd, displayParts, pendingResults, and the callbacks and
\* sentinel events made so far.
RECURSIVE ScanLoop(_, _)

\* The text before the sentinel goes to the capture and to the display parts.
PushSegment(acc, segment) ==
    IF Len(segment) > 0
    THEN [acc EXCEPT !.p = PushCapture(acc.p, segment),
                     !.displayParts = PushDisplay(acc.p, @, segment)]
    ELSE acc

\* The loop's locals after a CMD_START at data[i..to].
AfterStart(acc, i, to) ==
    [acc EXCEPT !.p = OnCmdStart(acc.p),
                !.lastEnd = to,
                !.events = @ \o <<[kind |-> "start", from |-> i, to |-> to]>>]

\* The loop's locals after a CMD_END at data[i..to] that finishCapture answered with f.
AfterEnd(acc, i, to, f) ==
    [acc EXCEPT !.p = f.p,
                !.lastEnd = to,
                !.sysCalls = @ \o f.calls,
                !.pendingResults = IF f.skipped THEN @
                                   ELSE @ \o <<CommandCall(f.result, f.raw)>>,
                !.events = @ \o <<[kind |-> "end", from |-> i, to |-> to,
                                   skipped |-> f.skipped,
                                   open |-> acc.p.capturing,
                                   raw |-> f.raw]>>]

\* One iteration on the match data[i..to], with the segment before it pushed.
ScanSentinel(data, acc, i, to, sentinelBody) ==
    IF sentinelBody = CMD_START_SENTINEL
    THEN ScanLoop(data, AfterStart(acc, i, to))
    ELSE ScanLoop(data, AfterEnd(acc, i, to, OnCmdEnd(acc.p, sentinelBody)))

ScanMatch(data, acc, i, len) ==
    ScanSentinel(data, PushSegment(acc, SubSeq(data, acc.lastEnd + 1, i - 1)),
                 i, i + len - 1, SubSeq(data, i + 1, i + len - 2))

ScanAt(data, acc, i) ==
    IF i = 0 THEN acc ELSE ScanMatch(data, acc, i, MatchAt(data, i))

ScanLoop(data, acc) == ScanAt(data, acc, FindMatch(data, acc.lastEnd + 1))

\* Variant of HandleTail that buffers nothing: the tail is captured and shown at once.
HandleTailUnbuffered(p, parts, tail) ==
    IF Len(tail) = 0 THEN [p |-> p, displayParts |-> parts]
    ELSE [p |-> PushCapture(p, tail), displayParts |-> PushDisplay(p, parts, tail)]

\* The data after the last match: a 0x1F in it starts a partial sentinel, which
\* is buffered (and the 50 ms timer armed); the rest is captured and displayed.
HandleTail(p, parts, tail) ==
    IF Len(tail) = 0 THEN [p |-> p, displayParts |-> parts]
    ELSE LET sentIdx == IndexOf(tail, SENTINEL_CHAR)
         IN  IF sentIdx # 0
             THEN LET safe == SubSeq(tail, 1, sentIdx - 1)
                      p1 == IF Len(safe) > 0 THEN PushCapture(p, safe) ELSE p
                  IN  [p |-> [p1 EXCEPT !.partialBuffer = Slice(tail, sentIdx),
                                        !.partialTimer = TRUE],
                       displayParts |-> IF Len(safe) > 0
                                        THEN PushDisplay(p, parts, safe) ELSE parts]
             ELSE [p |-> PushCapture(p, tail),
                   displayParts |-> PushDisplay(p, parts, tail)]

\* Variant of FlushQueueCalls that writes the queued messages one by one.
FlushQueueCallsOneByOne(p) ==
    [i \in 1..Len(p.displayQueue) |-> DisplayCall("sys", <<p.displayQueue[i]>>)]

\* flushDisplayQueue: the timer is cleared and the whole queue is written at once.
FlushQueueCalls(p) ==
    IF Len(p.displayQueue) = 0 THEN <<>> ELSE <<DisplayCall("sys", p.displayQueue)>>

flushDisplayQueue(p) == [p EXCEPT !.flushTimer = FALSE, !.displayQueue = <<>>]

\* Variant of FireCallbacks that fires the command callbacks before the display text.
FireCallbacksCommandsFirst(clean, pendingResults) ==
    pendingResults \o (IF Len(clean) > 0 THEN <<DisplayCall("serial", clean)>> ELSE <<>>)

\* The end of processOutput: the display text first, then the command callbacks.
FireCallbacks(clean, pendingResults) ==
    (IF Len(clean) > 0 THEN <<DisplayCall("serial", clean)>> ELSE <<>>) \o pendingResults

\* Variant of PrependPartial that forgets the buffered partial sentinel.
PrependNothing(p, chunk) == chunk

\* A buffered partial sentinel from the previous call is prepended to the data.
PrependPartial(p, chunk) == p.partialBuffer \o chunk

\* The loop's locals before the first iteration; the display queue was flushed
\* and the partial buffer taken.
ScanStart(p0) ==
    [p |-> [flushDisplayQueue(p0) EXCEPT !.partialBuffer = <<>>, !.partialTimer = FALSE],
     lastEnd |-> 0, displayParts |-> <<>>, pendingResults |-> <<>>,
     sysCalls |-> <<>>, events |-> <<>>]

\* What one processOutput call did: the new parser state, the callbacks in the
\* order they are invoked, the sentinel events with their positions in the
\* scanned text.
CallOutcome(flushed, acc, t, scanned) ==
    [p |-> t.p,
     calls |-> flushed \o acc.sysCalls \o FireCallbacks(t.displayParts, acc.pendingResults),
     events |-> acc.events,
     scanned |-> scanned]

AfterScan(flushed, data, acc) ==
    CallOutcome(flushed, acc,
                HandleTail(acc.p, acc.displayParts, Slice(data, acc.lastEnd + 1)),
                Len(data))

ScanData(p0, data) == AfterScan(FlushQueueCalls(p0), data, ScanLoop(data, ScanStart(p0)))

\* processOutput(data)
processOutput(p0, chunk) == ScanData(p0, PrependPartial(p0, chunk))

\* Variant of PartialTimeout that disarms the timer and leaves the bytes buffered.
PartialTimeoutDisarmOnly(p) ==
    [p |-> [p EXCEPT !.partialTimer = FALSE], calls |-> <<>>, events |-> <<>>]

\* Variant of PartialTimeout that shows the buffered bytes without capturing them.
PartialTimeoutUncaptured(p) ==
    [p |-> [p EXCEPT !.partialTimer = FALSE, !.partialBuffer = <<>>],
     calls |-> IF Len(p.partialBuffer) > 0 /\ ~p.muteSerial
               THEN <<DisplayCall("serial", p.partialBuffer)>> ELSE <<>>,
     events |-> <<>>]

\* The partial-sentinel timer's callback (50 ms after a partial was buffered).
PartialTimeout(p) ==
    LET buf == p.partialBuffer
        p1 == [p EXCEPT !.partialTimer = FALSE]
    IN  IF Len(buf) > 0
        THEN [p |-> PushCapture([p1 EXCEPT !.partialBuffer = <<>>], buf),
              calls |-> IF ~p.muteSerial THEN <<DisplayCall("serial", buf)>> ELSE <<>>,
              events |-> <<>>]
        ELSE [p |-> p1, calls |-> <<>>, events |-> <<>>]

\* queueSystemMessage(text)
queueSystemMessage(p, m) ==
    IF ~p.ready THEN [p EXCEPT !.pendingMessages = Append(@, [m |-> m, erase |-> FALSE])]
    ELSE [p EXCEPT !.displayQueue = Append(@, [m |-> m, erase |-> TRUE]),
                   !.flushTimer = TRUE]

\* The flush timer's callback (8 ms after the first queued message).
FlushTimeout(p) == [p |-> flushDisplayQueue(p), calls |-> FlushQueueCalls(p)]

muteUntilNextPrompt(p) == [p EXCEPT !.muteSerial = TRUE]

skipNextCapture(p) == [p EXCEPT !.skipCaptures = @ + 1]

\* ------------------------------------------------------- the serial stream
\* What the shell's prompt hook prints (bashrc.ts, __clitutor_prompt_cmd).
StartSentinel == <<SENTINEL_CHAR>> \o CMD_START_SENTINEL \o <<SENTINEL_CHAR>>

EndSentinel(rc, cwd) ==
    <<SENTINEL_CHAR>> \o CMD_END_SENTINEL \o <<COLON>> \o rc \o <<COLON>> \o cwd
        \o <<SENTINEL_CHAR>>

\* A line of command output: "a\n".
OutputLine == <<97, LF>>

\* One firing of the prompt hook after a command that exited 0 in HOME.
PromptCycle == EndSentinel(<<Ch0>>, HOME) \o StartSentinel

\* The pieces a stream is made of: a line of output, a whole prompt cycle, a
\* lone CMD_END (exit code 1, cwd "/"), a lone CMD_START, a stray 0x1F.
Pieces ==
    << OutputLine, PromptCycle, EndSentinel(<<Ch0 + 1>>, <<SLASH>>), StartSentinel,
       <<SENTINEL_CHAR>> >>

RECURSIVE Concat(_)
Concat(ss) == IF Len(ss) = 0 THEN <<>> ELSE Head(ss) \o Concat(Tail(ss))

\* Every stream of at most MaxPieces pieces, bare or after the boot prompt cycle.
Streams ==
    { boot \o Concat([i \in DOMAIN f |-> Pieces[f[i]]]) :
        boot \in {<<>>, PromptCycle},
        f \in UNION {[1..k -> 1..Len(Pieces)] : k \in 0..MaxPieces} }

\* ------------------------------------------------------------- exercises
OutputKinds == {"output_equals", "output_contains", "output_regex", "exit_code"}

PreSkipKinds == {"dir_with_file", "any_file_contains"}

FilesystemKinds == {"file_exists", "file_contains", "dir_with_file", "any_file_contains"}

ValidationTypes == OutputKinds \cup FilesystemKinds \cup {"cwd_regex"}

\* createExercise with the defaults xp 10, difficulty 1, no hints.
createExercise(id, vt, expected) ==
    [id |-> id, validation_type |-> vt, expected |-> expected, xp |-> 10,
     difficulty |-> 1, attempts |-> 0, first_try |-> TRUE, hints_used |-> 0,
     completed |-> FALSE]

\* The predicate parameter of an exercise of each kind: exit code "0", a
\* pattern matching HOME, the text "a".
ExpectedFor(vt) ==
    IF vt = "exit_code" THEN <<Ch0>>
    ELSE IF vt = "cwd_regex" THEN <<104>>
    ELSE <<97>>

\* loadLesson: a fresh LessonData with fresh Exercise objects. Lesson 1 has
\* two exercises, the first of kind vt; lesson 2 has one.
loadLesson(id, vt) ==
    [id |-> id,
     exercises |->
        IF id = 1
        THEN <<createExercise(11, vt, ExpectedFor(vt)),
               createExercise(12, "output_contains", ExpectedFor("output_contains"))>>
        ELSE <<createExercise(21, "output_contains", ExpectedFor("output_contains"))>>]

\* ------------------------------------------------------------- validator
\* String.prototype.trim
IsSpace(b) == b \in {SPACE, TAB, LF, CR, 11, 12}

RECURSIVE TrimStart(_)
TrimStart(s) == IF Len(s) > 0 /\ IsSpace(s[1]) THEN TrimStart(Tail(s)) ELSE s

RECURSIVE TrimEnd(_)
TrimEnd(s) ==
    IF Len(s) > 0 /\ IsSpace(s[Len(s)]) THEN TrimEnd(SubSeq(s, 1, Len(s) - 1)) ELSE s

Trim(s) == TrimEnd(TrimStart(s))

\* String.prototype.includes
Includes(s, t) == \E i \in 1..(Len(s) - Len(t) + 1) : SubSeq(s, i, i + Len(t) - 1) = t

\* First index at which t occurs in s (String.prototype.indexOf), 0 when none.
RECURSIVE IndexOfText(_, _, _)
IndexOfText(s, t, from) ==
    IF from + Len(t) - 1 > Len(s) THEN 0
    ELSE IF SubSeq(s, from, from + Len(t) - 1) = t THEN from
    ELSE IndexOfText(s, t, from + 1)

\* ok(message) and fail(message); threw is set where an exception leaves
\* validate instead of a ValidationResult.
ok(message) == [passed |-> TRUE, message |-> message, threw |-> FALSE]

fail(message) == [passed |-> FALSE, message |-> message, threw |-> FALSE]

\* parseInt(s, 10): leading whitespace, an optional sign, then the longest
\* run of digits; NaN when there is no digit.
parseInt(s) ==
    LET t == TrimStart(s)
        sign == IF Len(t) > 0 /\ t[1] \in {43, 45} THEN 1 ELSE 0
        n == DigitRun(t, sign + 1)
        value == ParseInt(SubSeq(t, sign + 1, sign + n))
    IN  [nan |-> n = 0,
         value |-> IF sign = 1 /\ t[1] = 45 THEN 0 - value ELSE value]

\* new RegExp(pattern) throws a SyntaxError: of the regular-expression
\* syntax the model has the character class, which "[" opens and "]" closes;
\* every other byte stands for itself.
RegExpThrows(pattern) ==
    /\ IndexOf(pattern, LBRACKET) # 0
    /\ IndexFrom(pattern, RBRACKET, IndexOf(pattern, LBRACKET) + 1) = 0

\* new RegExp(pattern).test(s) for a pattern without a character class.
RegExpTest(pattern, s) == Includes(s, pattern)

\* The synchronous checks; stderr of a CommandResult is always "".
checkOutputEquals(result, expected) ==
    IF Trim(result.stdout) = Trim(expected) THEN ok("Correct!")
    ELSE fail("Output doesn't match expected result.")

checkOutputContains(result, expected) ==
    IF Includes(result.stdout, Trim(expected)) THEN ok("Correct!")
    ELSE fail("Output doesn't contain expected text.")

\* Variant of checkOutputRegex without the try block: the SyntaxError leaves it.
checkOutputRegexUncaught(result, expected) ==
    IF RegExpThrows(expected) THEN [passed |-> FALSE, message |-> "", threw |-> TRUE]
    ELSE IF RegExpTest(expected, result.stdout) THEN ok("Correct!")
    ELSE fail("Output doesn't match expected pattern.")

checkOutputRegex(result, expected) ==
    IF RegExpThrows(expected) THEN fail("Invalid regex pattern.")
    ELSE IF RegExpTest(expected, result.stdout) THEN ok("Correct!")
    ELSE fail("Output doesn't match expected pattern.")

checkExitCode(result, expected) ==
    IF parseInt(Trim(expected)).nan THEN fail("Invalid expected exit code.")
    ELSE IF result.returncode = parseInt(Trim(expected)).value THEN ok("Correct!")
    ELSE fail("Expected exit code")

checkCwdRegex(expected, cwd) ==
    IF Len(cwd) = 0 THEN fail("Cannot determine current directory.")
    ELSE IF RegExpThrows(expected) THEN fail("Invalid regex pattern.")
    ELSE IF RegExpTest(expected, cwd) THEN ok("Correct!")
    ELSE fail("You haven't changed into the right directory yet.")

\* resolvePaths: under the sandbox root, and under cwd when that is another.
resolvePaths(filename, cwd) ==
    <<HOME \o <<SLASH>> \o filename>>
        \o (IF Len(cwd) > 0 /\ cwd # HOME THEN <<cwd \o <<SLASH>> \o filename>> ELSE <<>>)

\* The files of the VM are a function from paths to contents.
fileExists(fs, path) == path \in DOMAIN fs

readFile(fs, path) == fs[path]

\* The first of the paths at which a file exists, 0 when there is none.
FirstExisting(fs, paths) ==
    IF \E k \in DOMAIN paths : fileExists(fs, paths[k])
    THEN CHOOSE k \in DOMAIN paths :
            fileExists(fs, paths[k]) /\ \A j \in 1..(k - 1) : ~fileExists(fs, paths[j])
    ELSE 0

checkFileExists(expected, cwd, fs) ==
    IF FirstExisting(fs, resolvePaths(Trim(expected), cwd)) # 0
    THEN ok("Correct! File created.")
    ELSE fail("File not found.")

SEP == <<COLON, COLON>>

\* expected.split("::", 2): the text before the first "::", and the text
\* between the first "::" and the second (or the end).
SplitTwo(expected) ==
    LET i == IndexOfText(expected, SEP, 1)
        rest == Slice(expected, i + 2)
        j == IndexOfText(rest, SEP, 1)
    IN  <<SubSeq(expected, 1, i - 1), IF j = 0 THEN rest ELSE SubSeq(rest, 1, j - 1)>>

\* The loop of checkFileContains: the first path at which a file exists decides.
FileContains(fs, paths, content) ==
    IF FirstExisting(fs, paths) = 0 THEN fail("File not found.")
    ELSE IF Includes(readFile(fs, paths[FirstExisting(fs, paths)]), content)
    THEN ok("Correct! File contains expected content.")
    ELSE fail("File doesn't contain expected content.")

checkFileContains(expected, cwd, fs) ==
    IF IndexOfText(expected, SEP, 1) = 0 THEN fail("Invalid file_contains spec.")
    ELSE FileContains(fs, resolvePaths(Trim(SplitTwo(expected)[1]), cwd),
                      Trim(SplitTwo(expected)[2]))

\* validate(exercise, result) on a VM with the files fs. (dir_with_file and
\* any_file_contains run commands in the shell; see StartValidation.)
validate(exercise, result, fs) ==
    LET vtype == exercise.validation_type
        expected == exercise.expected
    IN  CASE vtype = "output_equals" -> checkOutputEquals(result, expected)
          [] vtype = "output_contains" -> checkOutputContains(result, expected)
          [] vtype = "output_regex" -> checkOutputRegex(result, expected)
          [] vtype = "exit_code" -> checkExitCode(result, expected)
          [] vtype = "file_exists" -> checkFileExists(expected, result.cwd, fs)
          [] vtype = "file_contains" -> checkFileContains(expected, result.cwd, fs)
          [] vtype = "cwd_regex" -> checkCwdRegex(expected, result.cwd)
          [] OTHER -> fail("Unknown validation type")

\* What handleCommand reads of a ValidationResult.
Verdict(r) == IF r.passed THEN "pass" ELSE "fail"

\* ------------------------------------------------------ XP and progress
\* calculateXp computes with Numbers, that is IEEE 754 doubles. The doubles it
\* meets are non-negative and below 2^38; one is held exactly as a sequence of
\* six limbs of LimbBits bits, least significant first, counting units of
\* 2^-76 (four limbs of fraction, two of integer part).
SignificandBits == 53

LimbBits == 19

LimbBase == 2^LimbBits

Limbs == 6

\* The integer n as such a number.
FromInt(n) == <<0, 0, 0, 0, n % LimbBase, n \div LimbBase>>

\* Carries (or borrows) propagated from limb i upwards.
RECURSIVE Carry(_, _, _)
Carry(x, i, c) ==
    IF i > Len(x) THEN <<>>
    ELSE <<(x[i] + c) % LimbBase>> \o Carry(x, i + 1, (x[i] + c) \div LimbBase)

\* Exact sum, difference and product with a small integer.
ExactAdd(x, y) == Carry([i \in 1..Limbs |-> x[i] + y[i]], 1, 0)

ExactSub(x, y) == Carry([i \in 1..Limbs |-> x[i] - y[i]], 1, 0)

ExactTimes(n, x) == Carry([i \in 1..Limbs |-> n * x[i]], 1, 0)

\* Long division by a small integer: the remainder carried into limb i.
RECURSIVE RemainderAbove(_, _, _)
RemainderAbove(x, n, i) ==
    IF i > Limbs THEN 0
    ELSE (RemainderAbove(x, n, i + 1) * LimbBase + x[i]) % n

ExactQuotient(x, n) ==
    [i \in 1..Limbs |-> (RemainderAbove(x, n, i + 1) * LimbBase + x[i]) \div n]

RECURSIVE BitLength(_)
BitLength(n) == IF n = 0 THEN 0 ELSE 1 + BitLength(n \div 2)

TopLimb(x) ==
    IF \A i \in 1..Limbs : x[i] = 0 THEN 0
    ELSE CHOOSE i \in 1..Limbs : x[i] # 0 /\ \A j \in (i + 1)..Limbs : x[j] = 0

BitLengthOf(x) ==
    IF TopLimb(x) = 0 THEN 0
    ELSE (TopLimb(x) - 1) * LimbBits + BitLength(x[TopLimb(x)])

BitOf(x, j) == (x[j \div LimbBits + 1] \div 2^(j % LimbBits)) % 2

ZeroBelow(x, j) ==
    /\ \A i \in 1..Limbs : i - 1 < j \div LimbBits => x[i] = 0
    /\ x[j \div LimbBits + 1] % 2^(j % LimbBits) = 0

ClearBelow(x, k) ==
    [i \in 1..Limbs |->
        IF i - 1 < k \div LimbBits THEN 0
        ELSE IF i - 1 = k \div LimbBits THEN x[i] - (x[i] % 2^(k % LimbBits))
        ELSE x[i]]

PowerOfTwo(k) ==
    [i \in 1..Limbs |-> IF i - 1 = k \div LimbBits THEN 2^(k % LimbBits) ELSE 0]

\* Round to nearest, ties to even, at the k lowest bits; inexact says that
\* the exact value lies above x by less than one unit.
RoundAt(x, k, inexact) ==
    IF k <= 0 THEN x
    ELSE IF BitOf(x, k - 1) = 1 /\ (~ZeroBelow(x, k - 1) \/ inexact \/ BitOf(x, k) = 1)
    THEN ExactAdd(ClearBelow(x, k), PowerOfTwo(k))
    ELSE ClearBelow(x, k)

\* The double nearest to an exact value.
Round(x, inexact) == RoundAt(x, BitLengthOf(x) - SignificandBits, inexact)

\* The quotient of two integers, a decimal literal with two decimals (0.10 is
\* Literal(10)), and the operators +, -, *, Math.max and Math.floor on doubles.
Divide(a, b) ==
    Round(ExactQuotient(FromInt(a), b), RemainderAbove(FromInt(a), b, 1) # 0)

Literal(hundredths) == Divide(hundredths, 100)

Plus(x, y) == Round(ExactAdd(x, y), FALSE)

Minus(x, y) == Round(ExactSub(x, y), FALSE)

Times(n, x) == Round(ExactTimes(n, x), FALSE)

RECURSIVE LessFrom(_, _, _)
LessFrom(x, y, i) ==
    IF i = 0 THEN FALSE
    ELSE IF x[i] # y[i] THEN x[i] < y[i]
    ELSE LessFrom(x, y, i - 1)

MathMax(x, y) == IF LessFrom(x, y, Limbs) THEN y ELSE x

MathFloor(x) == x[5] + LimbBase * x[6]

\* HINT_PENALTIES[Math.min(hintsUsed, 3)] ?? 0.50
HintPenalty(hintsUsed) ==
    Literal(CASE hintsUsed = 0 -> 0 [] hintsUsed = 1 -> 10 [] hintsUsed = 2 -> 30
              [] OTHER -> 50)

FirstTryBonus(multiplier, firstTry) ==
    IF firstTry THEN Plus(multiplier, Literal(50)) ELSE multiplier

calculateXp(baseXp, difficulty, firstTry, hintsUsed) ==
    MathFloor(
        Times(baseXp,
              MathMax(Minus(FirstTryBonus(Plus(Literal(100),
                                               Times(difficulty - 1, Literal(10))),
                                          firstTry),
                            HintPenalty(hintsUsed)),
                      Literal(25))))

\* LEVEL_TABLE: cumulative XP thresholds and titles.
LEVEL_TABLE ==
    << [threshold |-> 0, title |-> "Newbie"],
       [threshold |-> 50, title |-> "Curious Cat"],
       [threshold |-> 150, title |-> "Script Kiddie"],
       [threshold |-> 300, title |-> "Terminal Apprentice"],
       [threshold |-> 500, title |-> "Shell Wrangler"],
       [threshold |-> 750, title |-> "Pipe Plumber"],
       [threshold |-> 1050, title |-> "Regex Ranger"],
       [threshold |-> 1400, title |-> "Sysadmin Acolyte"],
       [threshold |-> 1800, title |-> "Root Whisperer"],
       [threshold |-> 2250, title |-> "Kernel Sage"],
       [threshold |-> 2750, title |-> "Daemon Tamer"],
       [threshold |-> 3300, title |-> "Syscall Sorcerer"],
       [threshold |-> 3900, title |-> "Namespace Ninja"],
       [threshold |-> 4550, title |-> "Container Captain"],
       [threshold |-> 5250, title |-> "Cluster Commander"],
       [threshold |-> 6000, title |-> "Infra Overlord"],
       [threshold |-> 6500, title |-> "BDFL"] >>

\* The loop of getLevelInfo over the indices i, i + 1, ... (counted from 0),
\* variant that passes over a threshold equal to the total.
RECURSIVE LevelLoopStrict(_, _, _)
LevelLoopStrict(totalXp, i, level) ==
    IF i >= Len(LEVEL_TABLE) THEN level
    ELSE IF totalXp > LEVEL_TABLE[i + 1].threshold
    THEN LevelLoopStrict(totalXp, i + 1, i)
    ELSE level

\* The loop of getLevelInfo: it stops at the first threshold above the total.
RECURSIVE LevelLoop(_, _, _)
LevelLoop(totalXp, i, level) ==
    IF i >= Len(LEVEL_TABLE) THEN level
    ELSE IF totalXp >= LEVEL_TABLE[i + 1].threshold
    THEN LevelLoop(totalXp, i + 1, i)
    ELSE level

LevelInfo(totalXp, level) ==
    [level |-> level,
     title |-> LEVEL_TABLE[level + 1].title,
     current_xp |-> totalXp,
     level_floor |-> LEVEL_TABLE[level + 1].threshold,
     level_ceiling |-> IF level + 1 < Len(LEVEL_TABLE)
                       THEN LEVEL_TABLE[level + 2].threshold
                       ELSE LEVEL_TABLE[level + 1].threshold]

getLevelInfo(totalXp) == LevelInfo(totalXp, LevelLoop(totalXp, 0, 0))

xpInLevel(info) == info.current_xp - info.level_floor

xpForLevel(info) == info.level_ceiling - info.level_floor

\* levelProgress: a double.
levelProgress(info) ==
    IF xpForLevel(info) = 0 THEN FromInt(1)
    ELSE Divide(xpInLevel(info), xpForLevel(info))

\* ProgressManager.recordExercise (the in-memory part) and isExerciseCompleted.
recordExercise(progress, lessonId, exerciseId, xpEarned, attempts, hintsUsed) ==
    {r \in progress : ~(r.lesson = lessonId /\ r.exercise = exerciseId)}
        \cup {[lesson |-> lessonId, exercise |-> exerciseId, completed |-> TRUE,
               xp_earned |-> xpEarned, attempts |-> attempts,
               hints_used |-> hintsUsed]}

isExerciseCompleted(progress, lessonId, exerciseId) ==
    \E r \in progress : r.lesson = lessonId /\ r.exercise = exerciseId /\ r.completed

\* A record as recordExercise stores it.
StoredRecord(lessonId, exerciseId, completed) ==
    [lesson |-> lessonId, exercise |-> exerciseId, completed |-> completed,
     xp_earned |-> 10, attempts |-> 1, hints_used |-> 0]

VARIABLES
    sc,         \* the SentinelCapture
    stream,     \* the bytes the VM writes to its serial port
    pos,        \* how many of them have been handed to processOutput
    h,          \* history: what the callbacks received, and the sentinel events
    tw,         \* a second SentinelCapture fed the same stream, with its history
    app,        \* the App: current lesson, exercise index, validating, progress
    objs,       \* the LessonData objects created by loadLesson so far
    vm,         \* the shell behind the serial port
    acts,       \* the suspended async activations of the App
    g           \* history of the App's handlers

vars == <<sc, stream, pos, h, tw, app, objs, vm, acts, g>>

driver == <<app, objs, vm, acts, g>>

NoHistory ==
    [shown |-> <<>>,        \* serial text written to the terminal, concatenated
     sysShown |-> <<>>,     \* system messages written to the terminal
     cmds |-> <<>>,         \* the CommandCalls delivered to onCommand
     orderBroken |-> FALSE, \* some call made a display callback after a command callback
     sawBoth |-> FALSE,     \* some call made a serial display and a command callback
     joined |-> FALSE,      \* some sentinel was recognised from bytes of two calls
     suppressed |-> FALSE,  \* some call showed less serial text than the twin's call
     events |-> <<>>,       \* sentinel events, with their positions in stream
     timerSplit |-> FALSE,  \* the partial timer has flushed the first part of a
                            \* sentinel whose remaining bytes were still to come
     muteOdd |-> FALSE,     \* a muted call showed serial text other than what
                            \* followed its first CMD_START, or the mute flag
                            \* changed other than by that CMD_START
     resumed |-> FALSE]     \* a muted call showed the text after its CMD_START

\* The effect of the callbacks of one call on the terminal and the command log.
RECURSIVE Deliver(_, _, _)
Deliver(hist, onDisplay, calls) ==
    IF Len(calls) = 0 THEN hist
    ELSE LET c == Head(calls)
             h1 == IF c.cb = "display" /\ onDisplay = "term"
                   THEN IF c.src = "serial"
                        THEN [hist EXCEPT !.shown = @ \o c.text]
                        ELSE [hist EXCEPT !.sysShown = @ \o c.text]
                   ELSE IF c.cb = "command"
                   THEN [hist EXCEPT !.cmds = Append(@, c)]
                   ELSE hist
         IN  Deliver(h1, onDisplay, Tail(calls))

\* Some display callback of one call comes after a command callback of it.
DisplayAfterCommand(calls) ==
    \E i, j \in 1..Len(calls) :
        i < j /\ calls[i].cb = "command" /\ calls[j].cb = "display"

SerialAndCommand(calls) ==
    /\ \E i \in 1..Len(calls) : calls[i].cb = "display" /\ calls[i].src = "serial"
    /\ \E j \in 1..Len(calls) : calls[j].cb = "command"

\* Sentinel events of one call, moved to positions in the whole stream.
AbsEvents(events, base) ==
    [i \in 1..Len(events) |->
        [events[i] EXCEPT !.from = @ + base, !.to = @ + base]]

\* The history after one call: callbacks delivered, sentinel events appended.
Record(hist, onDisplay, r, base) ==
    [Deliver(hist, onDisplay, r.calls) EXCEPT !.events = @ \o AbsEvents(r.events, base)]

NoTwin == [sc |-> NewSentinelCapture, h |-> NoHistory, pos |-> 0]

\* The App is not part of the parser specifications.
DriverOff ==
    /\ app = "off" /\ objs = <<>> /\ vm = "off" /\ acts = <<>> /\ g = "off"

\* ---------------------------------------- the parser under arbitrary chunks
InitParser ==
    /\ stream \in Streams
    /\ pos = 0
    /\ sc = [NewSentinelCapture EXCEPT !.onDisplay = "term"]
    /\ h = NoHistory
    /\ tw = NoTwin
    /\ DriverOff

\* The history of one call in the parser specification.
ChunkHistory(r) ==
    [Record(h, sc.onDisplay, r, pos - Len(sc.partialBuffer)) EXCEPT
        !.orderBroken = @ \/ DisplayAfterCommand(r.calls),
        !.sawBoth = @ \/ SerialAndCommand(r.calls),
        !.joined = @ \/ (Len(r.events) > 0 /\
                         r.events[1].from <= Len(sc.partialBuffer))]

ChunkDone(r) == sc' = r.p /\ h' = ChunkHistory(r)

\* The coalescer hands the next n bytes of the stream to processOutput.
Chunk(n) ==
    /\ pos + n <= Len(stream)
    /\ ChunkDone(processOutput(sc, SubSeq(stream, pos + 1, pos + n)))
    /\ pos' = pos + n
    /\ UNCHANGED <<stream, tw, driver>>

TimerDone(r) ==
    /\ sc' = r.p
    /\ h' = [Deliver(h, sc.onDisplay, r.calls) EXCEPT
                !.timerSplit = @ \/ InsideMatch(stream, pos)]

\* 50 ms pass without serial data while a partial sentinel is buffered.
PartialTimerFire ==
    /\ sc.partialTimer
    /\ TimerDone(PartialTimeout(sc))
    /\ UNCHANGED <<stream, pos, tw, driver>>

NextParser ==
    \/ \E n \in 1..MaxChunk : Chunk(n)
    \/ PartialTimerFire

SpecParser == InitParser /\ [][NextParser]_vars

\* ------------------------------ the parser with and without mute requests
\* Two parsers read the same chunks and see the same timer firings; only the
\* first receives muteUntilNextPrompt calls.
InitMute ==
    /\ stream \in Streams
    /\ pos = 0
    /\ sc = [NewSentinelCapture EXCEPT !.onDisplay = "term"]
    /\ h = NoHistory
    /\ tw = [NoTwin EXCEPT !.sc.onDisplay = "term"]
    /\ DriverOff

\* The twin after a call that produced rt.
TwinAfter(rt, to) ==
    [sc |-> rt.p, pos |-> to,
     h |-> Record(tw.h, tw.sc.onDisplay, rt, tw.pos - Len(tw.sc.partialBuffer))]

MainAfter(r, to) ==
    /\ sc' = r.p
    /\ h' = Record([h EXCEPT !.joined = @ \/ pos # tw.pos], sc.onDisplay, r,
                   pos - Len(sc.partialBuffer))
    /\ pos' = to

\* The display callbacks among the callbacks of one call.
DisplayCalls(calls) == SelectSeq(calls, LAMBDA c : c.cb = "display")

\* The serial text a call handed to the display callback.
RECURSIVE SerialText(_)
SerialText(calls) ==
    IF Len(calls) = 0 THEN <<>>
    ELSE (IF Head(calls).cb = "display" /\ Head(calls).src = "serial"
          THEN Head(calls).text ELSE <<>>) \o SerialText(Tail(calls))

StartsOf(events) == SelectSeq(events, LAMBDA e : e.kind = "start")

\* A call on the parser p that read data (nothing, for a timer callback) and
\* produced r did not treat the mute flag as it should: muted and without a
\* CMD_START it shows nothing and stays muted; muted and with one it ends
\* unmuted and shows (or buffers as a partial sentinel) exactly the
\* non-sentinel bytes after the first CMD_START; unmuted it stays unmuted.
MuteOdd(p, r, data) ==
    IF ~p.muteSerial THEN r.p.muteSerial
    ELSE IF Len(StartsOf(r.events)) = 0
    THEN SerialText(r.calls) # <<>> \/ ~r.p.muteSerial
    ELSE \/ r.p.muteSerial
         \/ SerialText(r.calls) \o r.p.partialBuffer
                # StripSentinels(Slice(data, StartsOf(r.events)[1].to + 1))

Resumed(p, r) ==
    p.muteSerial /\ Len(StartsOf(r.events)) > 0 /\ SerialText(r.calls) # <<>>

\* The first parser after a call that produced r where the twin's produced rt.
\* Of its display only the difference to the twin's is kept.
MutedAfter(r, rt, data) ==
    /\ sc' = r.p
    /\ h' = [Record(h, "none", r, pos - Len(sc.partialBuffer)) EXCEPT
                !.suppressed = @ \/ DisplayCalls(r.calls) # DisplayCalls(rt.calls),
                !.muteOdd = @ \/ MuteOdd(sc, r, data),
                !.resumed = @ \/ Resumed(sc, r)]

BothAfter(r, rt, to, data) == MutedAfter(r, rt, data) /\ tw' = TwinAfter(rt, to)

\* Both parsers are handed the next n bytes of the stream.
ChunkBoth(n) ==
    /\ pos + n <= Len(stream)
    /\ BothAfter(processOutput(sc, SubSeq(stream, pos + 1, pos + n)),
                 processOutput(tw.sc, SubSeq(stream, pos + 1, pos + n)), pos + n,
                 sc.partialBuffer \o SubSeq(stream, pos + 1, pos + n))
    /\ pos' = pos + n
    /\ UNCHANGED <<stream, driver>>

\* The partial-sentinel timer fires in both parsers (where it is armed).
TimerBoth ==
    /\ sc.partialTimer
    /\ BothAfter(PartialTimeout(sc),
                 IF tw.sc.partialTimer THEN PartialTimeout(tw.sc)
                 ELSE [p |-> tw.sc, calls |-> <<>>, events |-> <<>>],
                 tw.pos, <<>>)
    /\ UNCHANGED <<stream, pos, driver>>

\* muteUntilNextPrompt is called on the first parser.
Mute ==
    /\ sc' = muteUntilNextPrompt(sc)
    /\ UNCHANGED <<stream, pos, h, tw, driver>>

NextMute ==
    \/ \E n \in 1..MaxChunk : ChunkBoth(n)
    \/ TimerBoth
    \/ Mute

SpecMute == InitMute /\ [][NextMute]_vars

\* A timer set with setTimeout fires unless it is cleared first.
SpecMuteFair == SpecMute /\ WF_vars(TimerBoth)

\* ------------------------------- a sentinel delivered whole and in two calls
\* The first parser receives the text up to the end of the next sentinel in
\* two consecutive calls, cut k bytes into the sentinel; the second receives
\* it in one call.
NextSentinel == FindMatch(stream, pos + 1)

NextSentinelEnd == NextSentinel + MatchAt(stream, NextSentinel) - 1

InSync == pos = tw.pos

FeedTwin(to) == TwinAfter(processOutput(tw.sc, SubSeq(stream, tw.pos + 1, to)), to)

FeedMain(to) == MainAfter(processOutput(sc, SubSeq(stream, pos + 1, to)), to)

SplitFirst(k) ==
    /\ InSync
    /\ NextSentinel # 0
    /\ k < MatchAt(stream, NextSentinel)
    /\ FeedMain(NextSentinel - 1 + k)
    /\ UNCHANGED <<stream, tw, driver>>

\* The end of the sentinel the first parser holds a part of.
TwinSentinelEnd ==
    FindMatch(stream, tw.pos + 1) + MatchAt(stream, FindMatch(stream, tw.pos + 1)) - 1

SplitSecond ==
    /\ ~InSync
    /\ FeedMain(TwinSentinelEnd)
    /\ tw' = FeedTwin(TwinSentinelEnd)
    /\ UNCHANGED <<stream, driver>>

WholeChunk ==
    /\ InSync
    /\ NextSentinel # 0
    /\ FeedMain(NextSentinelEnd)
    /\ tw' = FeedTwin(NextSentinelEnd)
    /\ UNCHANGED <<stream, driver>>

RestChunk ==
    /\ InSync
    /\ NextSentinel = 0
    /\ pos < Len(stream)
    /\ FeedMain(Len(stream))
    /\ tw' = FeedTwin(Len(stream))
    /\ UNCHANGED <<stream, driver>>

NextSplit ==
    \/ \E k \in 1..MaxChunk : SplitFirst(k)
    \/ SplitSecond
    \/ WholeChunk
    \/ RestChunk

InitSplit == InitMute

SpecSplit == InitSplit /\ [][NextSplit]_vars

\* -------------------------------------------------------------- the shell
\* The shell behind the serial port: the lines typed into it and not yet
\* run (queue), the bytes it has written and the coalescer has not yet handed
\* to processOutput (wire), the exit status of the last command (rc), and
\* who typed the line whose response is on the wire (cur).
Prompt == <<36>>        \* PS1

NewVM == [up |-> TRUE, queue |-> <<>>, wire |-> <<>>, rc |-> 0, cur |-> "none"]

\* vm.sendSerial(line): nothing happens when the App's vm field is null.
sendSerial(v, origin, kind) ==
    IF v.up THEN [v EXCEPT !.queue = Append(@, [origin |-> origin, kind |-> kind])]
    ELSE v

\* vm.destroy()
destroy(v) == [v EXCEPT !.up = FALSE, !.queue = <<>>, !.wire = <<>>]

\* hasDirWithFile / findFileContaining: two serial commands, run the command
\* into a temporary file, then read and delete the file.
hasDirWithFile(v) ==
    sendSerial(sendSerial(v, "internal", "quiet"), "internal", "quiet")

\* $? after a line: an empty line leaves it, "false" sets 1, the rest 0.
ExitStatus(v, kind) ==
    CASE kind = "enter" -> v.rc
      [] kind = "false" -> 1
      [] OTHER -> 0

\* What the shell writes for one line: the echo of the Enter key, the
\* command's output, then the prompt hook's CMD_END and CMD_START and PS1.
Response(v, kind) ==
    <<LF>> \o (IF kind = "echo" THEN OutputLine ELSE <<>>)
        \o EndSentinel(<<Ch0 + ExitStatus(v, kind)>>, HOME) \o StartSentinel \o Prompt

\* bootVM's byte coalescer: the buffer is flushed at the first LF or CR; bytes
\* after the last one are flushed together by the 4 ms timer.
RECURSIVE Coalesce(_, _)
Coalesce(wire, n) ==
    IF n >= Len(wire) THEN Len(wire)
    ELSE IF wire[n] = LF \/ wire[n] = CR THEN n
    ELSE Coalesce(wire, n + 1)

\* ---------------------------------------------------------------- the App
\* Variant of reset that leaves the timers armed and the partial buffer filled.
resetKeepingTimers(p) ==
    [p EXCEPT !.capturing = FALSE, !.capturedChunks = <<>>, !.skipCaptures = 1,
              !.ready = FALSE, !.muteSerial = FALSE, !.commandWaiter = FALSE,
              !.pendingMessages = <<>>, !.displayQueue = <<>>]

\* Variant of reset that expects no CMD_END to skip.
resetToNoSkip(p) ==
    [p EXCEPT !.capturing = FALSE, !.capturedChunks = <<>>, !.skipCaptures = 0,
              !.ready = FALSE, !.muteSerial = FALSE, !.commandWaiter = FALSE,
              !.pendingMessages = <<>>, !.displayQueue = <<>>,
              !.partialBuffer = <<>>, !.flushTimer = FALSE, !.partialTimer = FALSE]

\* Variant of reset that leaves ready as it is.
resetKeepingReady(p) ==
    [p EXCEPT !.capturing = FALSE, !.capturedChunks = <<>>, !.skipCaptures = 1,
              !.muteSerial = FALSE, !.commandWaiter = FALSE,
              !.pendingMessages = <<>>, !.displayQueue = <<>>,
              !.partialBuffer = <<>>, !.flushTimer = FALSE, !.partialTimer = FALSE]

\* Variant of reset that leaves skipCaptures as it is.
resetKeepingSkips(p) ==
    [p EXCEPT !.capturing = FALSE, !.capturedChunks = <<>>,
              !.ready = FALSE, !.muteSerial = FALSE, !.commandWaiter = FALSE,
              !.pendingMessages = <<>>, !.displayQueue = <<>>,
              !.partialBuffer = <<>>, !.flushTimer = FALSE, !.partialTimer = FALSE]

\* SentinelCapture.reset()
reset(p) ==
    [p EXCEPT !.capturing = FALSE, !.capturedChunks = <<>>, !.skipCaptures = 1,
              !.ready = FALSE, !.muteSerial = FALSE, !.commandWaiter = FALSE,
              !.pendingMessages = <<>>, !.displayQueue = <<>>,
              !.partialBuffer = <<>>, !.flushTimer = FALSE, !.partialTimer = FALSE]

\* The App's fields. currentLesson is an index into objs, 0 for null; file
\* is the validation_type of the first exercise in lesson 1's file.
InitApp(vt) ==
    [currentLesson |-> 1, currentExercise |-> 0, validating |-> FALSE,
     progress |-> {}, file |-> vt]

\* The whole state, handed through the handlers.
Bundle == [sc |-> sc, app |-> app, objs |-> objs, vm |-> vm, acts |-> acts, g |-> g]

Ex(d, l, e) == d.objs[l].exercises[e]

CurEx(d) == Ex(d, d.app.currentLesson, d.app.currentExercise + 1)

\* A suspended async call of the App: handleCommand ("cmd") waiting for the
\* Validator ("validate"), the 600 ms drain ("drain") or the progress store
\* ("save"); openLessonByMeta ("open") waiting for loadLesson ("load"),
\* writeFile ("write") or the seeding wait ("seedwait"). obj and ex are the
\* lesson and exercise objects its locals refer to; left records that the
\* lesson was left while its Validator call was pending.
Activation(type, pc, obj, ex, num, origDisplay, outcome) ==
    [type |-> type, pc |-> pc, obj |-> obj, ex |-> ex, num |-> num,
     origDisplay |-> origDisplay, outcome |-> outcome, left |-> FALSE]

Remove(s, i) == SubSeq(s, 1, i - 1) \o SubSeq(s, i + 1, Len(s))

\* An exception leaves the async call: its promise is rejected, nobody handles it.
Rejected(d, i, label) ==
    [d EXCEPT !.acts = Remove(@, i), !.g.errors = @ \cup {label}]

\* Variant of IsValidating that never sees a validation in progress.
NeverValidating(ap) == FALSE

\* if (this.validating) return
IsValidating(ap) == ap.validating

\* !result.stdout.trim() && result.returncode === 0
IsBareEnter(result) == Len(Trim(result.stdout)) = 0 /\ result.returncode = 0

\* Variant of SkipsBareEnter that suppresses a bare Enter for every kind.
SkipsBareEnterAlways(vt) == TRUE

\* The kinds for which a bare Enter is not validated.
SkipsBareEnter(vt) == vt \in OutputKinds

\* The guards of handleCommand: the number of the one that returns, 0 if none.
GuardStep(d, result) ==
    IF IsValidating(d.app) THEN 1
    ELSE IF d.app.currentLesson = 0 THEN 2
    ELSE IF d.app.currentExercise >= Len(d.objs[d.app.currentLesson].exercises) THEN 3
    ELSE IF CurEx(d).completed THEN 4
    ELSE IF IsBareEnter(result) /\ SkipsBareEnter(CurEx(d).validation_type) THEN 5
    ELSE 0

\* Variant of PreSkip that skips nothing in advance.
PreSkipNone(vt, p) == p

\* Two skipNextCapture calls for the kinds whose Validator runs shell commands.
PreSkip(vt, p) ==
    IF vt \in PreSkipKinds THEN skipNextCapture(skipNextCapture(p)) ELSE p

\* handleCommand from attempts++ to the await of the Validator. The checks
\* that read only the CommandResult have settled when the await returns, so
\* the call is then waiting for the drain.
StartValidation(d, result, l, e) ==
    [d EXCEPT
        !.objs[l].exercises[e].attempts = @ + 1,
        !.app.validating = TRUE,
        !.sc = PreSkip(Ex(d, l, e).validation_type, [d.sc EXCEPT !.onDisplay = "noop"]),
        !.vm = IF Ex(d, l, e).validation_type \in PreSkipKinds
               THEN hasDirWithFile(d.vm) ELSE d.vm,
        !.acts = Append(@,
            IF Ex(d, l, e).validation_type \in FilesystemKinds
            THEN Activation("cmd", "validate", l, e, 0, d.sc.onDisplay, "none")
            ELSE Activation("cmd", "drain", l, e, 0, d.sc.onDisplay,
                            Verdict(validate(Ex(d, l, e), result, <<>>))))]

\* handleCommand(result), up to its first suspension.
handleCommand(d, result) ==
    IF GuardStep(d, result) # 0 THEN d
    ELSE StartValidation(d, result, d.app.currentLesson, d.app.currentExercise + 1)

\* The finally block: the display callback is restored, validating cleared.
Finally(d, a) ==
    [d EXCEPT !.sc.onDisplay = a.origDisplay, !.app.validating = FALSE]

\* Variant of PromptKick that sends the newline without skipNextCapture.
PromptKickUnskipped(d) == [d EXCEPT !.vm = sendSerial(@, "kick", "enter")]

\* skipNextCapture(); this.vm?.sendSerial("\n")
PromptKick(d) ==
    [d EXCEPT !.sc = skipNextCapture(@), !.vm = sendSerial(@, "kick", "enter")]

\* The Validator call of activation i rejects: the finally block runs and the
\* exception leaves handleCommand.
ValidatorThrew(d, i) == Rejected(Finally(d, d.acts[i]), i, "validate")

\* The pass branch up to the await of recordExercise: this.currentLesson.id
\* throws a TypeError when there is no current lesson.
PassBranch(d, i, a) ==
    IF d.app.currentLesson = 0 THEN Rejected(d, i, "handleCommand")
    ELSE [d EXCEPT
            !.app.progress =
                recordExercise(@, d.objs[d.app.currentLesson].id, Ex(d, a.obj, a.ex).id,
                               calculateXp(Ex(d, a.obj, a.ex).xp,
                                           Ex(d, a.obj, a.ex).difficulty,
                                           Ex(d, a.obj, a.ex).first_try,
                                           Ex(d, a.obj, a.ex).hints_used),
                               Ex(d, a.obj, a.ex).attempts,
                               Ex(d, a.obj, a.ex).hints_used),
            !.acts[i].pc = "save"]

\* The fail branch and the prompt kick after it.
FailBranch(d, i, a) ==
    PromptKick([d EXCEPT !.objs[a.obj].exercises[a.ex].first_try = FALSE,
                         !.sc = queueSystemMessage(@, "fail"),
                         !.acts = Remove(@, i)])

\* Variant of AfterDrain that does not mark the exercise before recordExercise.
AfterDrainUnmarked(d, i, a) ==
    IF a.outcome = "pass"
    THEN PassBranch(Finally(d, a), i, a)
    ELSE FailBranch(Finally(d, a), i, a)

\* handleCommand after the drain: finally, then the branch on validation.passed.
AfterDrain(d, i, a) ==
    IF a.outcome = "pass"
    THEN PassBranch([Finally(d, a) EXCEPT !.objs[a.obj].exercises[a.ex].completed = TRUE],
                    i, a)
    ELSE FailBranch(Finally(d, a), i, a)

\* The message after currentExercise++: the next exercise or the banner.
NextOrComplete(d) ==
    IF d.app.currentExercise < Len(d.objs[d.app.currentLesson].exercises)
    THEN [d EXCEPT !.sc = queueSystemMessage(@, "next")]
    ELSE [d EXCEPT !.sc = queueSystemMessage(@, "complete")]

\* The pass branch after recordExercise: this.currentLesson.exercises throws a
\* TypeError when there is no current lesson.
Advanced(d, i) ==
    IF d.app.currentLesson = 0 THEN Rejected(d, i, "handleCommand")
    ELSE PromptKick([NextOrComplete(d) EXCEPT !.acts = Remove(@, i)])

AfterSave(d, i) ==
    Advanced([d EXCEPT !.sc = queueSystemMessage(@, "ok"),
                       !.app.currentExercise = @ + 1], i)

\* The calls of handleCommand whose Validator call is pending notice nothing
\* when the current lesson changes; the model marks them.
MarkLeft(as, lesson) ==
    [i \in DOMAIN as |->
        IF as[i].type = "cmd" /\ as[i].pc = "validate" /\ as[i].obj # lesson
        THEN [as[i] EXCEPT !.left = TRUE] ELSE as[i]]

\* backToPicker()
backToPicker(d) ==
    [d EXCEPT !.vm = destroy(@), !.sc = reset(@),
              !.app.currentLesson = 0, !.app.currentExercise = 0,
              !.acts = MarkLeft(@, 0)]

\* The message of skipExercise after currentExercise++.
SkippedTo(d) ==
    IF d.app.currentExercise < Len(d.objs[d.app.currentLesson].exercises)
    THEN [d EXCEPT !.sc = queueSystemMessage(@, "next")]
    ELSE d

\* skipExercise()
skipExercise(d) ==
    IF d.app.currentLesson = 0
       \/ d.app.currentExercise >= Len(d.objs[d.app.currentLesson].exercises)
    THEN d
    ELSE SkippedTo([d EXCEPT !.sc = queueSystemMessage(@, "skipped"),
                             !.app.currentExercise = @ + 1])

\* openLessonByNumber(num) up to the await of loadLesson.
openLessonByNumber(d, num) ==
    [d EXCEPT !.acts = Append(@, Activation("open", "load", 0, 0, num, "null", "none"))]

\* resetSandbox() up to the await of writeFile in seedLessonSetup(lesson, true):
\* the message is queued, then the display callback is replaced and the seed
\* script's capture is skipped.
resetSandbox(d) ==
    IF ~d.vm.up \/ d.app.currentLesson = 0 THEN d
    ELSE [d EXCEPT
            !.acts = Append(@, Activation("reset", "write", d.app.currentLesson, 0, 0,
                                          d.sc.onDisplay, "none")),
            !.sc = skipNextCapture([queueSystemMessage(@, "resetting")
                                        EXCEPT !.onDisplay = "noop"])]

\* The words of the switch of handleSlashCommand, as the bytes typed.
SlashWords ==
    [help |-> <<SLASH, 104, 101, 108, 112>>,
     lessons |-> <<SLASH, 108, 101, 115, 115, 111, 110, 115>>,
     lesson |-> <<SLASH, 108, 101, 115, 115, 111, 110>>,
     hint |-> <<SLASH, 104, 105, 110, 116>>,
     skip |-> <<SLASH, 115, 107, 105, 112>>,
     reset |-> <<SLASH, 114, 101, 115, 101, 116>>,
     status |-> <<SLASH, 115, 116, 97, 116, 117, 115>>,
     sidebar |-> <<SLASH, 115, 105, 100, 101, 98, 97, 114>>,
     close |-> <<SLASH, 99, 108, 111, 115, 101>>,
     back |-> <<SLASH, 98, 97, 99, 107>>]

\* String.prototype.toLowerCase on ASCII text.
ToLowerCase(s) == [i \in 1..Len(s) |-> IF s[i] \in 65..90 THEN s[i] + 32 ELSE s[i]]

\* Length of the run of non-whitespace bytes of s that starts at index i.
RECURSIVE WordRun(_, _)
WordRun(s, i) == IF i <= Len(s) /\ ~IsSpace(s[i]) THEN 1 + WordRun(s, i + 1) ELSE 0

\* cmd.toLowerCase().split(/\s+/) of a trimmed line: parts[0], and parts[1]
\* (empty when there is none).
SplitWords(cmd) ==
    LET low == ToLowerCase(cmd)
        n == WordRun(low, 1)
        rest == TrimStart(Slice(low, n + 1))
    IN  <<SubSeq(low, 1, n), SubSeq(rest, 1, WordRun(rest, 1))>>

\* The case of the switch that parts[0] selects ("default" when none does).
CaseOf(word) ==
    IF \E k \in DOMAIN SlashWords : SlashWords[k] = word
    THEN CHOOSE k \in DOMAIN SlashWords : SlashWords[k] = word
    ELSE "default"

\* The switch of handleSlashCommand; parseInt(parts[1], 10) is NaN when
\* parts[1] does not start with a digit. (/help, /lessons, /hint, /status,
\* /sidebar and /close are not entered in this model.)
Dispatch(d, parts) ==
    CASE CaseOf(parts[1]) = "skip" -> skipExercise(d)
      [] CaseOf(parts[1]) = "reset" -> resetSandbox(d)
      [] CaseOf(parts[1]) = "back" -> backToPicker(d)
      [] CaseOf(parts[1]) = "lesson" ->
            IF DigitRun(parts[2], 1) > 0
            THEN openLessonByNumber(d, ParseInt(SubSeq(parts[2], 1, DigitRun(parts[2], 1))))
            ELSE [d EXCEPT !.sc = queueSystemMessage(@, "usage")]
      [] CaseOf(parts[1]) = "default" ->
            [d EXCEPT !.sc = queueSystemMessage(@, "unknown")]

\* handleSlashCommand(cmd): skipNextCapture first, then the switch.
handleSlashCommand(d, cmd) ==
    Dispatch([d EXCEPT !.sc = skipNextCapture(@)], SplitWords(cmd))

\* TerminalPane.onData at Enter: stripped.startsWith("/") && this.onSlashCommand
\* (the App sets onSlashCommand in its constructor).
Intercepts(stripped) == StartsWith(stripped, <<SLASH>>)

\* TerminalPane.onData when the user ends a line (text, which the shell
\* would run as a command of the given kind): a slash line is replaced by
\* Ctrl-U and CR and handed to onSlashCommand; any other is sent to the VM.
onData(d, text, kind) ==
    IF Intercepts(Trim(text))
    THEN handleSlashCommand([d EXCEPT !.vm = sendSerial(@, "slash", "enter")], Trim(text))
    ELSE [d EXCEPT !.vm = sendSerial(@, "user", kind)]

\* The restore loop of openLessonByMeta: completed flags and the index after
\* the last completed exercise.
RestoredExercises(lesson, progress) ==
    [k \in DOMAIN lesson.exercises |->
        IF isExerciseCompleted(progress, lesson.id, lesson.exercises[k].id)
        THEN [lesson.exercises[k] EXCEPT !.completed = TRUE]
        ELSE lesson.exercises[k]]

\* Variant of RestoredIndex that stops at the first exercise not completed.
RestoredIndexAtFirstGap(lesson, progress) ==
    LET open == {k \in DOMAIN lesson.exercises :
                    ~isExerciseCompleted(progress, lesson.id, lesson.exercises[k].id)}
    IN  IF open = {} THEN Len(lesson.exercises)
        ELSE (CHOOSE k \in open : \A j \in open : k <= j) - 1

RestoredIndex(lesson, progress) ==
    LET done == {k \in DOMAIN lesson.exercises :
                    isExerciseCompleted(progress, lesson.id, lesson.exercises[k].id)}
    IN  IF done = {} THEN 0 ELSE CHOOSE k \in done : \A j \in done : j <= k

\* The announcement at the end of openLessonByMeta and the prompt kick.
Announce(d, i) ==
    PromptKick(
        [d EXCEPT
            !.sc = queueSystemMessage(queueSystemMessage(@, "title"),
                        IF d.app.currentExercise < Len(d.objs[d.acts[i].obj].exercises)
                        THEN "exercise" ELSE "allDone"),
            !.acts = Remove(@, i)])

\* seedLessonSetup(lesson, true) up to the await of writeFile; without a VM
\* it returns at once.
SeedStart(d, i) ==
    IF ~d.vm.up THEN Announce(d, i)
    ELSE [d EXCEPT !.acts[i].origDisplay = d.sc.onDisplay,
                   !.acts[i].pc = "write",
                   !.sc = skipNextCapture([@ EXCEPT !.onDisplay = "noop"])]

\* openLessonByMeta after loadLesson returned the fresh lesson object.
AfterLoad(d, i, lesson) ==
    SeedStart(
        [d EXCEPT
            !.objs = Append(@, [lesson EXCEPT
                                  !.exercises = RestoredExercises(lesson, d.app.progress)]),
            !.app.currentLesson = Len(d.objs) + 1,
            !.app.currentExercise = RestoredIndex(lesson, d.app.progress),
            !.acts = [MarkLeft(@, Len(d.objs) + 1) EXCEPT ![i].obj = Len(d.objs) + 1]],
        i)

\* seedLessonSetup after writeFile: this.vm.sendSerial throws a TypeError
\* when the VM is gone.
AfterSeedWrite(d, i) ==
    IF ~d.vm.up THEN Rejected(d, i, "seed")
    ELSE [d EXCEPT !.vm = sendSerial(@, "seed", "quiet"), !.acts[i].pc = "seedwait",
                   !.g.seeding = @ + 1]

\* The rest of resetSandbox: "Sandbox reset." is queued and a prompt is asked
\* for; this.vm.sendSerial throws a TypeError when the VM is gone.
AfterReset(d, i) ==
    LET d1 == [d EXCEPT !.sc = skipNextCapture(queueSystemMessage(@, "resetDone"))]
    IN  IF ~d.vm.up THEN Rejected(d1, i, "reset")
        ELSE [d1 EXCEPT !.vm = sendSerial(@, "kick", "enter"), !.acts = Remove(@, i)]

\* seedLessonSetup after its wait, and the rest of openLessonByMeta or of
\* resetSandbox.
AfterSeedWait(d, i) ==
    LET d1 == [d EXCEPT !.sc.onDisplay = d.acts[i].origDisplay]
    IN  IF d.acts[i].type = "reset" THEN AfterReset(d1, i) ELSE Announce(d1, i)

\* ------------------------------------------------- history of the handlers
NoThrow ==
    [seen |-> FALSE, queued |-> FALSE, cleared |-> FALSE, kicked |-> FALSE,
     restored |-> FALSE, escaped |-> FALSE]

NoGhost ==
    [inputs |-> 0,              \* lines and slash commands entered so far
     errors |-> {},             \* async calls that ended with an exception
     disturbed |-> FALSE,       \* the user entered something while the App or
                                \* the shell was busy
     ignored |-> FALSE,         \* a CommandResult was delivered while validating
     guardBroken |-> FALSE,     \* ... and handleCommand changed something
     reentered |-> FALSE,       \* a validation started while one was in progress
     spurious |-> FALSE,        \* a validation started for a line the user did not enter
     leaked |-> {},             \* who entered the lines, other than the user's,
                                \* whose CommandResult reached handleCommand
     internalSkips |-> 0,       \* CMD_ENDs of the Validator's commands skipped
     userSkipped |-> FALSE,     \* the CMD_END of a line the user entered into
                                \* the shell was skipped
     bareSkipped |-> FALSE,     \* a bare Enter met an output-kind exercise
     bareStarted |-> FALSE,     \* a bare Enter met a filesystem-kind exercise
     bareWrong |-> FALSE,       \* ... and handleCommand did the opposite
     swallowed |-> FALSE,       \* a line without a slash-command word was kept
                                \* from the shell
     misrouted |-> FALSE,       \* a line with a slash-command word went to the shell
     passOdd |-> FALSE,         \* a pass branch ended otherwise than with the
                                \* exercise completed, recorded under its lesson
                                \* and the index one past it
     failOdd |-> FALSE,         \* a fail branch in the open lesson did otherwise
                                \* than first_try = false, one message, one kick
     kickOdd |-> FALSE,         \* a pass branch in the open lesson did not kick
                                \* once, after recordExercise
     failed |-> FALSE,          \* a fail branch has run in the open lesson
     passed |-> FALSE,          \* a pass branch has run in the open lesson
     seeding |-> 0,             \* seed lines sent whose CMD_START is still to come
     seedShown |-> FALSE,       \* serial text reached the terminal meanwhile
     recorded |-> {},           \* the exercise objects recordExercise was called for
     rerecorded |-> FALSE,      \* ... and it was called for one of them again
     revalidated |-> FALSE,     \* a validation started on one of them
     heldOff |-> FALSE,         \* a CommandResult arrived while a pass was being
                                \* persisted and started nothing
     storeOdd |-> FALSE,        \* after a failed write of the progress store the
                                \* pass did not go on: index not advanced or no
                                \* prompt kick
     storeLost |-> FALSE,       \* ... or the exercise is not completed in memory
     msgLost |-> {},            \* system messages of a flushed queue that were
                                \* handed to a display callback other than the
                                \* terminal's
     thrown |-> NoThrow,        \* what handleCommand did when the Validator threw
     stale |-> {}]              \* what a call did that resumed after its lesson was left

\* Nothing is suspended and the shell has nothing to run or to write.
Idle == acts = <<>> /\ vm.queue = <<>> /\ vm.wire = <<>>

\* The calls of handleCommand that hold the validating flag.
InFlight(as) ==
    Cardinality({i \in DOMAIN as : as[i].type = "cmd" /\ as[i].pc \in {"validate", "drain"}})

ValidatorCalls(as) ==
    Cardinality({i \in DOMAIN as : as[i].type = "cmd" /\ as[i].pc = "validate"})

HasPendingExercise(d) ==
    /\ d.app.currentLesson # 0
    /\ d.app.currentExercise < Len(d.objs[d.app.currentLesson].exercises)
    /\ ~CurEx(d).completed

\* A bare Enter that passes the first four guards, on an exercise of one of kinds.
BareCase(d, result, kinds) ==
    /\ ~d.app.validating
    /\ HasPendingExercise(d)
    /\ IsBareEnter(result)
    /\ CurEx(d).validation_type \in kinds

Started(d, d1) == Len(d1.acts) > Len(d.acts)

\* A validation attempt was made on the current exercise of d.
Attempted(d, d1) ==
    /\ Started(d, d1)
    /\ CurEx(d1).attempts = CurEx(d).attempts + 1

\* The pass of the current exercise is waiting for the progress store.
Persisting(d) ==
    \E i \in DOMAIN d.acts :
        /\ d.acts[i].type = "cmd" /\ d.acts[i].pc = "save"
        /\ d.acts[i].obj = d.app.currentLesson
        /\ d.acts[i].ex = d.app.currentExercise + 1

\* The history after handleCommand took d to d1 for a result of origin's line.
Observe(d, d1, result, origin) ==
    [d1 EXCEPT !.g = [@ EXCEPT
        !.ignored = @ \/ d.app.validating,
        !.guardBroken = @ \/ (d.app.validating /\ d1 # d),
        !.reentered = @ \/ (Started(d, d1) /\ InFlight(d.acts) > 0),
        !.spurious = @ \/ (Started(d, d1) /\ origin # "user"),
        !.leaked = IF origin # "user" THEN @ \cup {origin} ELSE @,
        !.revalidated = @ \/ (Started(d, d1) /\
                                <<d.app.currentLesson, d.app.currentExercise + 1>>
                                    \in d.g.recorded),
        !.heldOff = @ \/ (d1 = d /\ Persisting(d)),
        !.bareSkipped = @ \/ BareCase(d, result, OutputKinds),
        !.bareStarted = @ \/ BareCase(d, result, FilesystemKinds),
        !.bareWrong = \/ @
                      \/ (BareCase(d, result, OutputKinds) /\ d1 # d)
                      \/ (BareCase(d, result, FilesystemKinds) /\ ~Attempted(d, d1))]]

\* The callbacks of one processOutput call, in order; the command callback is
\* handleCommand, the display callbacks do not touch the App.
RECURSIVE ApplyCalls(_, _, _)
ApplyCalls(d, calls, origin) ==
    IF Len(calls) = 0 THEN d
    ELSE IF Head(calls).cb = "command"
    THEN ApplyCalls(Observe(d, handleCommand(d, Head(calls).result),
                            Head(calls).result, origin),
                    Tail(calls), origin)
    ELSE ApplyCalls(d, Tail(calls), origin)

StartEvents(events) == SelectSeq(events, LAMBDA e : e.kind = "start")

SkippedEnds(events) == Len(SelectSeq(events, LAMBDA e : e.kind = "end" /\ e.skipped))

\* What handleCommand did when the Validator call of a threw, d to d1.
Thrown(d, d1, a) ==
    [seen |-> TRUE,
     queued |-> Len(d1.sc.displayQueue) + Len(d1.sc.pendingMessages)
                    > Len(d.sc.displayQueue) + Len(d.sc.pendingMessages),
     cleared |-> ~Ex(d1, a.obj, a.ex).first_try,
     kicked |-> d1.sc.skipCaptures = d.sc.skipCaptures + 1
                /\ Len(d1.vm.queue) = Len(d.vm.queue) + 1,
     restored |-> d1.sc.onDisplay = a.origDisplay /\ ~d1.app.validating,
     escaped |-> d1.g.errors # d.g.errors]

WithThrown(d, d1, a) == [d1 EXCEPT !.g.thrown = Thrown(d, d1, a)]

\* What the resumed call of a did, d to d1, to the state it found.
StaleEffects(d, d1, a) ==
    (IF Ex(d1, a.obj, a.ex).completed /\ ~Ex(d, a.obj, a.ex).completed
     THEN {"completed"} ELSE {})
    \cup (IF d1.app.progress # d.app.progress THEN {"recorded"} ELSE {})
    \cup (IF d1.app.currentExercise # d.app.currentExercise THEN {"index"} ELSE {})
    \cup (IF d1.g.errors # d.g.errors THEN {"error"} ELSE {})

WithStale(d, d1, a) ==
    IF a.left THEN [d1 EXCEPT !.g.stale = @ \cup StaleEffects(d, d1, a)] ELSE d1

\* The system messages of the parser that are not yet written.
Waiting(p) == p.pendingMessages \o p.displayQueue

\* From d to d1 there was one prompt kick: one skipNextCapture call and one
\* newline sent to the shell.
OneKick(d, d1) ==
    /\ d1.sc.skipCaptures = d.sc.skipCaptures + 1
    /\ Len(d1.vm.queue) = Len(d.vm.queue) + 1
    /\ d1.vm.queue[Len(d1.vm.queue)].origin = "kick"

NoKick(d, d1) ==
    d1.sc.skipCaptures = d.sc.skipCaptures /\ d1.vm.queue = d.vm.queue

\* What the claims say of the pass branch of the call of a, once it is over.
PassHeld(d1, a) ==
    /\ Ex(d1, a.obj, a.ex).completed
    /\ \E r \in d1.app.progress :
          /\ r.lesson = d1.objs[a.obj].id
          /\ r.exercise = Ex(d1, a.obj, a.ex).id
          /\ r.xp_earned = calculateXp(Ex(d1, a.obj, a.ex).xp,
                                       Ex(d1, a.obj, a.ex).difficulty,
                                       Ex(d1, a.obj, a.ex).first_try,
                                       Ex(d1, a.obj, a.ex).hints_used)
    /\ d1.app.currentLesson = a.obj
    /\ d1.app.currentExercise = a.ex

\* What the claims say of the fail branch of the call of a, from d to d1.
FailHeld(d, d1, a) ==
    /\ ~Ex(d1, a.obj, a.ex).first_try
    /\ Ex(d1, a.obj, a.ex).completed = Ex(d, a.obj, a.ex).completed
    /\ d1.app.currentExercise = d.app.currentExercise
    /\ Len(Waiting(d1.sc)) = Len(Waiting(d.sc)) + 1
    /\ Waiting(d1.sc)[Len(Waiting(d1.sc))].m = "fail"
    /\ OneKick(d, d1)

\* The lesson of the call of a is the current one and its shell is running.
StillOpen(d, a) == d.app.currentLesson = a.obj /\ d.vm.up

\* The history after the call of a resumed from its drain, d to d1.
Drained(d, d1, a) ==
    IF a.outcome = "pass"
    THEN [d1 EXCEPT
            !.g.recorded = IF d1.g.errors = d.g.errors
                           THEN @ \cup {<<a.obj, a.ex>>} ELSE @,
            !.g.rerecorded = @ \/ (d1.g.errors = d.g.errors
                                    /\ <<a.obj, a.ex>> \in d.g.recorded),
            !.g.passOdd = @ \/ d1.g.errors # d.g.errors,
            !.g.kickOdd = @ \/ (StillOpen(d, a) /\ ~NoKick(d, d1))]
    ELSE [d1 EXCEPT
            !.g.failed = @ \/ StillOpen(d, a),
            !.g.failOdd = @ \/ (StillOpen(d, a) /\ ~FailHeld(d, d1, a))]

\* The history after the call of a resumed from recordExercise, d to d1.
Saved(d, d1, a) ==
    [d1 EXCEPT
        !.g.passOdd = @ \/ ~PassHeld(d1, a),
        !.g.passed = @ \/ StillOpen(d, a),
        !.g.kickOdd = @ \/ (StillOpen(d, a) /\ ~OneKick(d, d1))]

\* The history after the write of the progress store failed for the call of
\* a, d to d1.
StoreFailed(d, d1, a) ==
    [d1 EXCEPT
        !.g.storeOdd = @ \/ ~(d1.app.currentExercise = d.app.currentExercise + 1
                               /\ OneKick(d, d1)),
        !.g.storeLost = @ \/ ~(Ex(d1, a.obj, a.ex).completed
                                /\ isExerciseCompleted(d1.app.progress, d1.objs[a.obj].id,
                                                       Ex(d1, a.obj, a.ex).id))]

\* ------------------------------------------- the App with a lesson open
parser == <<stream, pos, h, tw>>

\* Lesson 1 is open at its first exercise, the shell shows its prompt.
Init ==
    /\ stream = <<>> /\ pos = 0 /\ h = NoHistory /\ tw = NoTwin
    /\ sc = [NewSentinelCapture EXCEPT !.onDisplay = "term", !.ready = TRUE,
                                       !.skipCaptures = 0, !.capturing = TRUE,
                                       !.capturedChunks = Prompt]
    /\ \E vt \in ValidationTypes :
          app = InitApp(vt) /\ objs = <<loadLesson(1, vt)>>
    /\ vm = NewVM
    /\ acts = <<>>
    /\ g = NoGhost

Step(d) ==
    /\ sc' = d.sc /\ app' = d.app /\ objs' = d.objs
    /\ vm' = d.vm /\ acts' = d.acts /\ g' = d.g
    /\ UNCHANGED parser

\* The state after the user entered something.
Entered(d) == [d EXCEPT !.g.inputs = @ + 1, !.g.disturbed = @ \/ ~Idle]

UserKinds == {"enter", "echo", "false"}

\* A line of each kind as typed: nothing, "e" (a command that prints a line
\* and exits 0) and "f" (one that exits 1).
LineOf(kind) ==
    CASE kind = "enter" -> <<>>
      [] kind = "echo" -> <<101>>
      [] kind = "false" -> <<102>>

\* The user's line went to the shell (and not to handleSlashCommand).
Forwarded(d0, d1) ==
    /\ Len(d1.vm.queue) = Len(d0.vm.queue) + 1
    /\ d1.vm.queue[Len(d1.vm.queue)].origin = "user"

\* The words the specification lists as intercepted.
Recognized(text) ==
    StartsWith(Trim(text), <<SLASH>>) /\ CaseOf(SplitWords(Trim(text))[1]) # "default"

\* What the terminal did with the line is written down.
Typed(d0, d1, text) ==
    [d1 EXCEPT !.g.swallowed = @ \/ (~Recognized(text) /\ ~Forwarded(d0, d1)),
               !.g.misrouted = @ \/ (Recognized(text) /\ Forwarded(d0, d1))]

TypedLine(d0, text, kind) == Step(Typed(d0, onData(d0, text, kind), text))

\* The user types a line and Enter: the terminal forwards it to the shell.
UserCommand(kind) ==
    /\ vm.up
    /\ g.inputs < MaxInputs
    /\ TypedLine(Entered(Bundle), LineOf(kind), kind)

\* The lines beginning with "/" that the user types: /skip, /back,
\* "/lesson 1", "/lesson 2", and "/x", a path the shell would not find.
SlashCommands ==
    {SlashWords.skip, SlashWords.back,
     SlashWords.lesson \o <<SPACE, Ch0 + 1>>, SlashWords.lesson \o <<SPACE, Ch0 + 2>>,
     <<SLASH, 120>>}

\* The user types a line that begins with "/" and Enter.
Slash(cmd) ==
    /\ vm.up
    /\ g.inputs < MaxInputs
    /\ TypedLine(Entered(Bundle), cmd, "false")

\* The shell runs the next line typed into it.
VmRun ==
    /\ vm.up
    /\ vm.wire = <<>>
    /\ vm.queue # <<>>
    /\ Step([Bundle EXCEPT
                !.vm = [@ EXCEPT !.wire = Response(vm, Head(vm.queue).kind),
                                 !.rc = ExitStatus(vm, Head(vm.queue).kind),
                                 !.cur = Head(vm.queue).origin,
                                 !.queue = Tail(@)]])

\* The serial text of a chunk that the terminal shows while a seed line is
\* out: all of it, or what precedes the CMD_START after the seed script.
ShownWhileSeeding(chunk, events) ==
    IF sc.onDisplay # "term" \/ sc.muteSerial \/ g.seeding = 0 THEN <<>>
    ELSE IF vm.cur = "seed" /\ StartEvents(events) # <<>>
    THEN StripSentinels(SubSeq(chunk, 1, StartEvents(events)[1].from - 1))
    ELSE StripSentinels(chunk)

\* The system messages that a flush of the display queue hands to a display
\* callback that is not the terminal's.
LostAtFlush(p) ==
    IF p.onDisplay = "term" THEN {}
    ELSE {p.displayQueue[k].m : k \in DOMAIN p.displayQueue}

SerialGhost(r, chunk) ==
    [g EXCEPT
        !.msgLost = @ \cup LostAtFlush(sc),
        !.internalSkips = @ + (IF vm.cur = "internal" THEN SkippedEnds(r.events) ELSE 0),
        !.userSkipped = @ \/ (vm.cur = "user" /\ SkippedEnds(r.events) > 0),
        !.seedShown = @ \/ Len(ShownWhileSeeding(chunk, r.events)) > 0,
        !.seeding = IF vm.cur = "seed" /\ StartEvents(r.events) # <<>> THEN @ - 1 ELSE @]

SerialDone(r, n) ==
    Step(ApplyCalls(
            [Bundle EXCEPT
                !.sc = r.p,
                !.vm.wire = Slice(@, n + 1),
                !.g = SerialGhost(r, SubSeq(vm.wire, 1, n))],
            r.calls, vm.cur))

SerialChunk(n) == SerialDone(processOutput(sc, SubSeq(vm.wire, 1, n)), n)

\* The coalescer hands the next bytes of the shell to processOutput.
Serial ==
    /\ vm.up
    /\ vm.wire # <<>>
    /\ SerialChunk(Coalesce(vm.wire, 1))

\* 8 ms pass without serial data while system messages are queued.
FlushTimerFire ==
    /\ sc.flushTimer
    /\ Step([Bundle EXCEPT !.sc = FlushTimeout(sc).p,
                            !.g.msgLost = @ \cup LostAtFlush(sc)])

\* The Validator call of activation i resolves, once the shell has run the
\* Validator's commands.
ValidatorSettles(i, outcome) ==
    /\ i \in DOMAIN acts
    /\ acts[i].type = "cmd" /\ acts[i].pc = "validate"
    /\ \A k \in DOMAIN vm.queue : vm.queue[k].origin # "internal"
    /\ Step([Bundle EXCEPT !.acts[i].pc = "drain", !.acts[i].outcome = outcome])

\* The Validator call of activation i rejects.
ValidatorThrows(i) ==
    /\ i \in DOMAIN acts
    /\ acts[i].type = "cmd" /\ acts[i].pc = "validate"
    /\ Step(WithThrown(Bundle, ValidatorThrew(Bundle, i), acts[i]))

\* The 600 ms drain of activation i is over.
DrainDone(i) ==
    /\ i \in DOMAIN acts
    /\ acts[i].type = "cmd" /\ acts[i].pc = "drain"
    /\ Step(Drained(Bundle, WithStale(Bundle, AfterDrain(Bundle, i, acts[i]), acts[i]),
                    acts[i]))

\* The progress store has written the record of activation i.
SaveDone(i) ==
    /\ i \in DOMAIN acts
    /\ acts[i].type = "cmd" /\ acts[i].pc = "save"
    /\ Step(Saved(Bundle, WithStale(Bundle, AfterSave(Bundle, i), acts[i]), acts[i]))

\* loadLesson returns to openLessonByMeta.
LessonLoaded(i) ==
    /\ i \in DOMAIN acts
    /\ acts[i].type = "open" /\ acts[i].pc = "load"
    /\ Step(AfterLoad(Bundle, i, loadLesson(acts[i].num, app.file)))

\* writeFile returns to seedLessonSetup.
SeedWritten(i) ==
    /\ i \in DOMAIN acts
    /\ acts[i].type \in {"open", "reset"} /\ acts[i].pc = "write"
    /\ Step(AfterSeedWrite(Bundle, i))

\* The seeding wait is over.
SeedDone(i) ==
    /\ i \in DOMAIN acts
    /\ acts[i].type \in {"open", "reset"} /\ acts[i].pc = "seedwait"
    /\ Step(AfterSeedWait(Bundle, i))

Next ==
    \/ \E kind \in UserKinds : UserCommand(kind)
    \/ \E cmd \in SlashCommands : Slash(cmd)
    \/ VmRun
    \/ Serial
    \/ FlushTimerFire
    \/ \E i \in DOMAIN acts : \E outcome \in {"pass", "fail"} : ValidatorSettles(i, outcome)
    \/ \E i \in DOMAIN acts : ValidatorThrows(i)
    \/ \E i \in DOMAIN acts : DrainDone(i)
    \/ \E i \in DOMAIN acts : SaveDone(i)
    \/ \E i \in DOMAIN acts : LessonLoaded(i)
    \/ \E i \in DOMAIN acts : SeedWritten(i)
    \/ \E i \in DOMAIN acts : SeedDone(i)

Spec == Init /\ [][Next]_vars

\* ------------------------------------ the progress store refuses a write
\* The App with lesson 1 open and a user who enters commands only; the put
\* request of ProgressManager.save may fail.
\* dbPut rejects: the exception passes through save and recordExercise and
\* leaves handleCommand at its await.
SaveFails(i) ==
    /\ i \in DOMAIN acts
    /\ acts[i].type = "cmd" /\ acts[i].pc = "save"
    /\ Step(StoreFailed(Bundle, Rejected(Bundle, i, "save"), acts[i]))

NextStore ==
    \/ \E kind \in UserKinds : UserCommand(kind)
    \/ VmRun
    \/ Serial
    \/ FlushTimerFire
    \/ \E i \in DOMAIN acts : \E outcome \in {"pass", "fail"} : ValidatorSettles(i, outcome)
    \/ \E i \in DOMAIN acts : DrainDone(i)
    \/ \E i \in DOMAIN acts : SaveDone(i)
    \/ \E i \in DOMAIN acts : SaveFails(i)

SpecStore == Init /\ [][NextStore]_vars

\* --------------------------------- the App at the last exercise of a lesson
\* Lesson 1 was opened with its first exercise recorded as completed: the
\* restore loop has marked it and set the index to the second, last exercise.
InitAtLast ==
    /\ stream = <<>> /\ pos = 0 /\ h = NoHistory /\ tw = NoTwin
    /\ sc = [NewSentinelCapture EXCEPT !.onDisplay = "term", !.ready = TRUE,
                                       !.skipCaptures = 0, !.capturing = TRUE,
                                       !.capturedChunks = Prompt]
    /\ \E vt \in ValidationTypes :
          /\ app = [InitApp(vt) EXCEPT
                        !.progress = {StoredRecord(1, 11, TRUE)},
                        !.currentExercise =
                            RestoredIndex(loadLesson(1, vt), {StoredRecord(1, 11, TRUE)})]
          /\ objs = <<[loadLesson(1, vt) EXCEPT
                          !.exercises = RestoredExercises(loadLesson(1, vt),
                                                          {StoredRecord(1, 11, TRUE)})]>>
    /\ vm = NewVM
    /\ acts = <<>>
    /\ g = NoGhost

\* The last exercise checks the command's output, so no call waits for the
\* Validator's shell commands.
NextAtLast ==
    \/ \E kind \in UserKinds : UserCommand(kind)
    \/ \E cmd \in SlashCommands : Slash(cmd)
    \/ VmRun
    \/ Serial
    \/ FlushTimerFire
    \/ \E i \in DOMAIN acts : DrainDone(i)
    \/ \E i \in DOMAIN acts : SaveDone(i)
    \/ \E i \in DOMAIN acts : LessonLoaded(i)
    \/ \E i \in DOMAIN acts : SeedWritten(i)
    \/ \E i \in DOMAIN acts : SeedDone(i)

SpecAtLast == InitAtLast /\ [][NextAtLast]_vars

\* ------------------------------------------------ the sandbox is reset
\* The App with lesson 1 open and a user who enters commands and /reset.
\* The user types /reset and Enter.
ResetTyped == Slash(SlashWords.reset)

NextReset ==
    \/ \E kind \in UserKinds : UserCommand(kind)
    \/ ResetTyped
    \/ VmRun
    \/ Serial
    \/ FlushTimerFire
    \/ \E i \in DOMAIN acts : \E outcome \in {"pass", "fail"} : ValidatorSettles(i, outcome)
    \/ \E i \in DOMAIN acts : DrainDone(i)
    \/ \E i \in DOMAIN acts : SaveDone(i)
    \/ \E i \in DOMAIN acts : SeedWritten(i)
    \/ \E i \in DOMAIN acts : SeedDone(i)

SpecReset == Init /\ [][NextReset]_vars

\* ------------------------------------------- a run, reset, the run again
\* A parser is used (chunks, timer firings, skipNextCapture calls) and then
\* reset; from there it and a freshly constructed parser receive the same
\* calls: the stream from its start in the same chunks, the same timer
\* firings, skipNextCapture at the same positions.
InitReplay ==
    /\ stream \in Streams
    /\ pos = 0
    /\ sc = [NewSentinelCapture EXCEPT !.onDisplay = "term"]
    /\ h = NoHistory
    /\ tw = [sc |-> [NewSentinelCapture EXCEPT !.onDisplay = "term"],
             h |-> NoHistory, pos |-> 0, phase |-> "first", skips |-> 0,
             early |-> FALSE,   \* skipNextCapture was called after the reset
                                \* and before the first CMD_END
             before |-> [skipCaptures |-> 1, capturing |-> FALSE]]
    /\ DriverOff

\* The parser after a call of its first life.
Used(r) == sc' = r.p

FirstChunk(n) ==
    /\ tw.phase = "first"
    /\ pos + n <= Len(stream)
    /\ Used(processOutput(sc, SubSeq(stream, pos + 1, pos + n)))
    /\ pos' = pos + n
    /\ UNCHANGED <<stream, h, tw, driver>>

FirstTimer ==
    /\ tw.phase = "first"
    /\ sc.partialTimer
    /\ Used(PartialTimeout(sc))
    /\ UNCHANGED <<stream, pos, h, tw, driver>>

FirstSkip ==
    /\ tw.phase = "first"
    /\ sc.skipCaptures < MaxPieces
    /\ sc' = skipNextCapture(sc)
    /\ UNCHANGED <<stream, pos, h, tw, driver>>

\* reset() ends the first life; the stream starts again.
ResetForReplay ==
    /\ tw.phase = "first"
    /\ sc' = reset(sc)
    /\ pos' = 0
    /\ tw' = [tw EXCEPT !.phase = "replay",
                        !.before = [skipCaptures |-> sc.skipCaptures,
                                    capturing |-> sc.capturing]]
    /\ UNCHANGED <<stream, h, driver>>

\* The reset parser and the fresh one after the same call.
Replayed(r, rt, to) ==
    /\ sc' = r.p
    /\ h' = Record(h, sc.onDisplay, r, pos - Len(sc.partialBuffer))
    /\ tw' = [tw EXCEPT !.sc = rt.p, !.pos = to,
                        !.h = Record(tw.h, tw.sc.onDisplay, rt,
                                     tw.pos - Len(tw.sc.partialBuffer))]

ReplayChunk(n) ==
    /\ tw.phase = "replay"
    /\ pos + n <= Len(stream)
    /\ Replayed(processOutput(sc, SubSeq(stream, pos + 1, pos + n)),
                processOutput(tw.sc, SubSeq(stream, pos + 1, pos + n)), pos + n)
    /\ pos' = pos + n
    /\ UNCHANGED <<stream, driver>>

\* 50 ms without data pass for both parsers.
ReplayTimer ==
    /\ tw.phase = "replay"
    /\ sc.partialTimer \/ tw.sc.partialTimer
    /\ Replayed(IF sc.partialTimer THEN PartialTimeout(sc)
                ELSE [p |-> sc, calls |-> <<>>, events |-> <<>>],
                IF tw.sc.partialTimer THEN PartialTimeout(tw.sc)
                ELSE [p |-> tw.sc, calls |-> <<>>, events |-> <<>>],
                tw.pos)
    /\ UNCHANGED <<stream, pos, driver>>

\* skipNextCapture is called on both parsers.
ReplaySkip ==
    /\ tw.phase = "replay"
    /\ tw.skips < MaxPieces
    /\ sc' = skipNextCapture(sc)
    /\ tw' = [tw EXCEPT !.sc = skipNextCapture(@), !.skips = @ + 1,
                        !.early = @ \/ ~sc.ready]
    /\ UNCHANGED <<stream, pos, h, driver>>

NextReplay ==
    \/ \E n \in 1..MaxChunk : FirstChunk(n)
    \/ FirstTimer
    \/ FirstSkip
    \/ ResetForReplay
    \/ \E n \in 1..MaxChunk : ReplayChunk(n)
    \/ ReplayTimer
    \/ ReplaySkip

SpecReplay == InitReplay /\ [][NextReplay]_vars

\* ------------------------------------------- every operation of the parser
\* The parser on its own under any order of its operations: serial chunks,
\* its two timers, skipNextCapture, muteUntilNextPrompt, queueSystemMessage
\* and reset (after which the respawned shell prints its stream again).
\* tw observes the calls: what happened since construction or the last reset.
NoCalls ==
    [ended |-> FALSE,     \* a CMD_END was processed
     readyCalls |-> 0,    \* invocations of onReady
     skipOdd |-> FALSE,   \* skipCaptures changed other than by +1, -1 at a
                          \* CMD_END while positive, or to 1 by reset
     unskipped |-> FALSE, \* a CMD_END was processed while skipCaptures was 0
     msgs |-> 0,          \* queueSystemMessage calls so far
     waiting |-> <<>>,    \* messages queued while ready and not yet written
     queueOdd |-> FALSE,  \* a write of queued messages was not the first
                          \* callback of its call, or not all waiting messages
                          \* in their order, or was missing
     batched |-> FALSE,   \* one write had two messages, before serial text
     idleFlush |-> FALSE, \* the flush timer has written messages
     captureOdd |-> FALSE,\* capturing changed other than to true by a CMD_START,
                          \* to false by a CMD_END or by reset
     resetOdd |-> FALSE,  \* reset left a field uncleared or a timer armed
     resetBusy |-> FALSE, \* reset was called in the middle of a capture with
                          \* a timer armed
     held |-> <<>>,       \* messages queued while not ready, not yet written
     heldOdd |-> FALSE,   \* a held message was written before ready, or the
                          \* call that set ready did not write exactly the
                          \* held messages in their order, or one was written
                          \* by another call
     heldShown |-> FALSE, \* the call that set ready wrote two or more
     resets |-> 0]

InitApi ==
    /\ stream \in {t \in Streams : StartsWith(t, PromptCycle)}
    /\ pos = 0
    /\ sc = [NewSentinelCapture EXCEPT !.onDisplay = "term"]
    /\ h = NoHistory
    /\ tw = NoCalls
    /\ DriverOff

EndEvents(events) == SelectSeq(events, LAMBDA e : e.kind = "end")

\* A display callback that writes the joined display queue.
IsQueueFlush(c) ==
    c.cb = "display" /\ c.src = "sys" /\ Len(c.text) > 0 /\ c.text[1].erase

Messages(text) == [i \in 1..Len(text) |-> text[i].m]

\* The callbacks of a call that flushes the queue first do not write exactly
\* the waiting messages as their first callback and nowhere else.
QueueOdd(calls, waiting) ==
    \/ \E i \in 2..Len(calls) : IsQueueFlush(calls[i])
    \/ Len(waiting) > 0 /\ (Len(calls) = 0 \/ ~IsQueueFlush(calls[1]))
    \/ Len(calls) > 0 /\ IsQueueFlush(calls[1]) /\ Messages(calls[1].text) # waiting

\* The messages that flushPendingMessages wrote in these callbacks.
HeldWritten(calls) ==
    LET w == SelectSeq(calls, LAMBDA c : c.cb = "display" /\ c.src = "sys"
                                           /\ ~IsQueueFlush(c))
    IN  [i \in 1..Len(w) |-> Messages(w[i].text)]

\* A write of the display queue carries a message that is still held.
QueueShowsHeld(calls, held) ==
    \E i \in 1..Len(calls) :
        /\ IsQueueFlush(calls[i])
        /\ \E j \in 1..Len(calls[i].text), k \in 1..Len(held) :
               calls[i].text[j].m = held[k]

\* A call from p to q with these callbacks wrote held messages otherwise than
\* all of them, once, in their order, when ready became true.
HeldOdd(p, q, calls, held) ==
    \/ QueueShowsHeld(calls, held)
    \/ HeldWritten(calls) #
           (IF ~p.ready /\ q.ready THEN [i \in 1..Len(held) |-> <<held[i]>>] ELSE <<>>)

\* What skipCaptures is after k CMD_ENDs, each subtracting 1 while it is positive.
AfterEnds(n, k) == IF k >= n THEN 0 ELSE n - k

\* capturing after a call is what the last sentinel of the call made it.
CaptureOdd(p, r) ==
    r.p.capturing #
        (IF Len(r.events) = 0 THEN p.capturing
         ELSE r.events[Len(r.events)].kind = "start")

\* The parser is not as reset leaves it.
ResetOdd(p) ==
    \/ p.capturing \/ p.capturedChunks # <<>> \/ p.skipCaptures # 1 \/ p.ready
    \/ p.muteSerial \/ p.pendingMessages # <<>> \/ p.displayQueue # <<>>
    \/ p.partialBuffer # <<>> \/ p.flushTimer \/ p.partialTimer

\* What tw records of a call of processOutput on p that produced r.
Flushing(t, p, r) ==
    [t EXCEPT
        !.captureOdd = @ \/ CaptureOdd(p, r),
        !.heldOdd = @ \/ HeldOdd(p, r.p, r.calls, t.held),
        !.heldShown = @ \/ (~p.ready /\ r.p.ready /\ Len(t.held) > 1),
        !.held = IF r.p.ready THEN <<>> ELSE @,
        !.ended = @ \/ Len(EndEvents(r.events)) > 0,
        !.readyCalls = @ + Len(SelectSeq(r.calls, LAMBDA c : c.cb = "ready")),
        !.skipOdd = @ \/ r.p.skipCaptures #
                             AfterEnds(p.skipCaptures, Len(EndEvents(r.events))),
        !.unskipped = @ \/ \E i \in 1..Len(r.events) :
                               r.events[i].kind = "end" /\ ~r.events[i].skipped,
        !.queueOdd = @ \/ QueueOdd(r.calls, t.waiting),
        !.batched = @ \/ (Len(r.calls) > 1 /\ IsQueueFlush(r.calls[1])
                             /\ Len(r.calls[1].text) > 1
                             /\ r.calls[2].cb = "display" /\ r.calls[2].src = "serial"),
        !.waiting = <<>>]

Called(r) == sc' = r.p /\ tw' = Flushing(tw, sc, r)

\* The next n bytes of the stream are handed to processOutput; the chunks end
\* at the end of the stream, after a line feed or after a 0x1F (between two
\* sentinels, or with the first byte of a sentinel as a partial one).
ApiChunk(n) ==
    /\ pos + n <= Len(stream)
    /\ pos + n = Len(stream) \/ stream[pos + n] \in {LF, SENTINEL_CHAR}
    /\ Called(processOutput(sc, SubSeq(stream, pos + 1, pos + n)))
    /\ pos' = pos + n
    /\ UNCHANGED <<stream, h, driver>>

\* The flush timer's callback writes the queue.
ApiFlushTimer ==
    /\ sc.flushTimer
    /\ sc' = FlushTimeout(sc).p
    /\ tw' = [tw EXCEPT !.queueOdd = @ \/ QueueOdd(FlushTimeout(sc).calls, tw.waiting),
                        !.idleFlush = @ \/ Len(FlushTimeout(sc).calls) > 0,
                        !.heldOdd = @ \/ HeldOdd(sc, FlushTimeout(sc).p,
                                                 FlushTimeout(sc).calls, tw.held),
                        !.captureOdd = @ \/ FlushTimeout(sc).p.capturing # sc.capturing,
                        !.skipOdd = @ \/ FlushTimeout(sc).p.skipCaptures # sc.skipCaptures,
                        !.waiting = <<>>]
    /\ UNCHANGED <<stream, pos, h, driver>>

\* The partial-sentinel timer's callback: serial text only.
ApiPartialTimer ==
    /\ sc.partialTimer
    /\ sc' = PartialTimeout(sc).p
    /\ tw' = [tw EXCEPT
                !.queueOdd = @ \/ \E i \in 1..Len(PartialTimeout(sc).calls) :
                                       IsQueueFlush(PartialTimeout(sc).calls[i]),
                !.captureOdd = @ \/ PartialTimeout(sc).p.capturing # sc.capturing,
                !.heldOdd = @ \/ HeldOdd(sc, PartialTimeout(sc).p,
                                         PartialTimeout(sc).calls, tw.held),
                !.skipOdd = @ \/ PartialTimeout(sc).p.skipCaptures # sc.skipCaptures]
    /\ UNCHANGED <<stream, pos, h, driver>>

ApiSkip ==
    /\ sc.skipCaptures < MaxPieces
    /\ sc' = skipNextCapture(sc)
    /\ tw' = [tw EXCEPT !.skipOdd = @ \/ sc'.skipCaptures # sc.skipCaptures + 1,
                        !.captureOdd = @ \/ sc'.capturing # sc.capturing]
    /\ UNCHANGED <<stream, pos, h, driver>>

ApiMute ==
    /\ ~sc.muteSerial
    /\ sc' = muteUntilNextPrompt(sc)
    /\ tw' = [tw EXCEPT !.skipOdd = @ \/ sc'.skipCaptures # sc.skipCaptures,
                        !.captureOdd = @ \/ sc'.capturing # sc.capturing]
    /\ UNCHANGED <<stream, pos, h, driver>>

ApiQueue ==
    /\ tw.msgs < MaxMsgs
    /\ sc' = queueSystemMessage(sc, tw.msgs + 1)
    /\ tw' = [tw EXCEPT !.msgs = @ + 1,
                        !.waiting = IF sc.ready THEN Append(@, tw.msgs + 1) ELSE @,
                        !.held = IF sc.ready THEN @ ELSE Append(@, tw.msgs + 1),
                        !.skipOdd = @ \/ sc'.skipCaptures # sc.skipCaptures,
                        !.captureOdd = @ \/ sc'.capturing # sc.capturing]
    /\ UNCHANGED <<stream, pos, h, driver>>

ApiReset ==
    /\ tw.resets < MaxResets
    /\ sc' = reset(sc)
    /\ pos' = 0
    /\ tw' = [tw EXCEPT !.resets = @ + 1, !.ended = FALSE, !.readyCalls = 0,
                        !.waiting = <<>>, !.unskipped = FALSE,
                        !.held = <<>>, !.heldShown = FALSE,
                        !.skipOdd = @ \/ sc'.skipCaptures # 1,
                        !.captureOdd = @ \/ sc'.capturing,
                        !.resetOdd = @ \/ ResetOdd(sc'),
                        !.resetBusy = @ \/ (sc.capturing /\ sc.capturedChunks # <<>>
                                              /\ (sc.partialTimer \/ sc.flushTimer))]
    /\ UNCHANGED <<stream, h, driver>>

NextApi ==
    \/ \E n \in 1..MaxChunk : ApiChunk(n)
    \/ ApiFlushTimer
    \/ ApiPartialTimer
    \/ ApiSkip
    \/ ApiMute
    \/ ApiQueue
    \/ ApiReset

SpecApi == InitApi /\ [][NextApi]_vars

\* ------------------------------------------------- one call of the Validator
\* validate is called once on an exercise, a CommandResult and the files of
\* the VM, each drawn from a small set; h holds the call and what it returned.
ValidatedKinds == ValidationTypes \ PreSkipKinds

\* Predicate parameters: "", "0", "1x", "x", "a", "[", "f", "f::a", "f::a::b".
Expecteds ==
    { <<>>, <<Ch0>>, <<Ch0 + 1, 120>>, <<120>>, <<97>>, <<LBRACKET>>, <<102>>,
      <<102>> \o SEP \o <<97>>, <<102>> \o SEP \o <<97>> \o SEP \o <<98>> }

\* Captured output: nothing, "a\n", "[".
Stdouts == { <<>>, OutputLine, <<LBRACKET>> }

\* Working directories: unknown, the sandbox root, "/d".
Cwds == { <<>>, HOME, <<SLASH, 100>> }

\* The file f under the sandbox root and under "/d", each absent or holding
\* "a" or "b".
FilePaths == { HOME \o <<SLASH, 102>>, <<SLASH, 100, SLASH, 102>> }

Filesystems == UNION { [D -> {<<97>>, <<98>>}] : D \in SUBSET FilePaths }

InitValidate ==
    /\ \E vt \in ValidatedKinds, expected \in Expecteds, stdout \in Stdouts,
          rc \in 0..1, cwd \in Cwds, fs \in Filesystems :
            h = [exercise |-> createExercise(1, vt, expected),
                 result |-> createCommandResult(stdout, rc, cwd),
                 fs |-> fs, out |-> <<>>]
    /\ pos = 0
    /\ sc = "off" /\ stream = <<>> /\ tw = "off"
    /\ DriverOff

\* await validator.validate(exercise, result)
Validate ==
    /\ pos = 0
    /\ h' = [h EXCEPT !.out = <<validate(h.exercise, h.result, h.fs)>>]
    /\ pos' = 1
    /\ UNCHANGED <<sc, stream, tw, driver>>

NextValidate == Validate

SpecValidate == InitValidate /\ [][NextValidate]_vars

\* -------------------------------------------------- /hint in an open lesson
\* The part of the App that /hint and /skip touch: the current lesson
\* (1, or 0 for null) with its exercises, the exercise index, the hint
\* overlay and the number of system messages queued. h holds it together
\* with the number of /hint commands entered on each exercise.
Min(a, b) == IF a < b THEN a ELSE b

\* HintOverlay.show(exercise): the dialog with the hints it renders.
show(e, exercise) ==
    LET hintsAvailable == Len(exercise.hints)
        hintsToShow == Min(exercise.hints_used + 1, hintsAvailable)
    IN  [visible |-> TRUE, exercise |-> e,
         hints |-> [i \in 1..hintsToShow |-> exercise.hints[i]]]

\* HintOverlay.hide()
hide(overlay) == [overlay EXCEPT !.visible = FALSE]

\* App.showHint()
showHint(a) ==
    IF a.currentLesson = 0 \/ a.currentExercise >= Len(a.exercises)
    THEN [a EXCEPT !.queued = @ + 1]
    ELSE LET e == a.currentExercise + 1
             used == Min(a.exercises[e].hints_used + 1, Len(a.exercises[e].hints))
         IN  [a EXCEPT !.exercises[e].hints_used = used,
                       !.overlay = show(e, [a.exercises[e] EXCEPT !.hints_used = used])]

\* App.skipExercise(): one message for the skipped exercise, one for the
\* next one if there is one.
skipCurrent(a) ==
    IF a.currentLesson = 0 \/ a.currentExercise >= Len(a.exercises) THEN a
    ELSE [a EXCEPT !.currentExercise = @ + 1,
                   !.queued = @ + (IF a.currentExercise + 1 < Len(a.exercises)
                                   THEN 2 ELSE 1)]

\* A lesson of two exercises with up to MaxHints hints each, just opened.
HintTexts(n) == [i \in 1..n |-> i]

InitHint ==
    /\ \E n1 \in 0..MaxHints, n2 \in 0..MaxHints :
         h = [app |-> [currentLesson |-> 1, currentExercise |-> 0,
                       exercises |-> <<[hints |-> HintTexts(n1), hints_used |-> 0],
                                       [hints |-> HintTexts(n2), hints_used |-> 0]>>,
                       overlay |-> [visible |-> FALSE, exercise |-> 0, hints |-> <<>>],
                       queued |-> 0],
              calls |-> <<0, 0>>,
              idle |-> 0]
    /\ pos = 0
    /\ sc = "off" /\ stream = <<>> /\ tw = "off"
    /\ DriverOff

\* The user enters /hint.
HintTyped ==
    /\ IF h.app.currentExercise < Len(h.app.exercises)
       THEN /\ h.calls[h.app.currentExercise + 1] < MaxHintCalls
            /\ h' = [h EXCEPT !.app = showHint(@),
                              !.calls[h.app.currentExercise + 1] = @ + 1]
       ELSE /\ h.idle < 1
            /\ h' = [h EXCEPT !.app = showHint(@), !.idle = @ + 1]
    /\ UNCHANGED <<sc, stream, pos, tw, driver>>

\* The user enters /skip.
SkipTyped ==
    /\ h.app.currentExercise < Len(h.app.exercises)
    /\ h' = [h EXCEPT !.app = skipCurrent(@)]
    /\ UNCHANGED <<sc, stream, pos, tw, driver>>

\* The user closes the overlay.
OverlayClosed ==
    /\ h.app.overlay.visible
    /\ h' = [h EXCEPT !.app.overlay = hide(@)]
    /\ UNCHANGED <<sc, stream, pos, tw, driver>>

NextHint ==
    \/ HintTyped
    \/ SkipTyped
    \/ OverlayClosed

SpecHint == InitHint /\ [][NextHint]_vars

\* ------------------------------------------------------ one call of calculateXp
\* calculateXp is called once on a base XP, a difficulty, the first-try flag
\* and a number of hints; h holds the call and what it returned.
InitXp ==
    /\ \E baseXp \in 0..MaxBaseXp, difficulty \in 1..4, firstTry \in BOOLEAN,
          hintsUsed \in 0..(MaxHints + 1) :
            h = [baseXp |-> baseXp, difficulty |-> difficulty, firstTry |-> firstTry,
                 hintsUsed |-> hintsUsed, out |-> <<>>]
    /\ pos = 0
    /\ sc = "off" /\ stream = <<>> /\ tw = "off"
    /\ DriverOff

CalculateXp ==
    /\ pos = 0
    /\ h' = [h EXCEPT !.out = <<calculateXp(h.baseXp, h.difficulty, h.firstTry,
                                            h.hintsUsed)>>]
    /\ pos' = 1
    /\ UNCHANGED <<sc, stream, tw, driver>>

NextXp == CalculateXp

SpecXp == InitXp /\ [][NextXp]_vars

\* ------------------------------------------------- the level of a total XP
\* getLevelInfo is called on a total XP, then levelProgress on what it
\* returned; h holds the total and the two results.
InitLevel ==
    /\ \E totalXp \in 0..MaxTotalXp :
         h = [totalXp |-> totalXp, info |-> <<>>, progress |-> <<>>]
    /\ pos = 0
    /\ sc = "off" /\ stream = <<>> /\ tw = "off"
    /\ DriverOff

GetLevelInfo ==
    /\ pos = 0
    /\ h' = [h EXCEPT !.info = <<getLevelInfo(h.totalXp)>>]
    /\ pos' = 1
    /\ UNCHANGED <<sc, stream, tw, driver>>

LevelProgress ==
    /\ pos = 1
    /\ h' = [h EXCEPT !.progress = <<levelProgress(h.info[1])>>]
    /\ pos' = 2
    /\ UNCHANGED <<sc, stream, tw, driver>>

NextLevel ==
    \/ GetLevelInfo
    \/ LevelProgress

SpecLevel == InitLevel /\ [][NextLevel]_vars

\* ------------------------------------------- the parser behind a real shell
\* The echoed prompt and command line as the terminal receives it: an OSC
\* title sequence, a CSI colour sequence, "$ e", CR LF.
EchoLine == <<ESC, RBRACKET, BEL, ESC, LBRACKET, 109, 36, SPACE, 101, CR, LF>>

\* A directory whose name holds a colon: "/a:b".
ColonDir == <<SLASH, 97, COLON, 98>>

\* What the shell writes from one prompt to the next: the echoed line, the
\* command's output, and the prompt hook's CMD_END and CMD_START. The last
\* run is an Enter on an empty prompt hook (nothing between the sentinels).
CommandRuns ==
    << EchoLine \o OutputLine \o EndSentinel(<<Ch0>>, HOME) \o StartSentinel,
       EchoLine \o EndSentinel(<<Ch0 + 1>>, ColonDir) \o StartSentinel,
       EchoLine \o OutputLine \o OutputLine \o EndSentinel(<<Ch0>>, ColonDir) \o StartSentinel,
       EndSentinel(<<Ch0 + 1>>, <<>>) \o StartSentinel >>

\* The boot prompt cycle, then at most MaxPieces runs.
ShellStreams ==
    { PromptCycle \o Concat([i \in DOMAIN f |-> CommandRuns[f[i]]]) :
        f \in UNION {[1..k -> 1..Len(CommandRuns)] : k \in 0..MaxPieces} }

InitShell ==
    /\ stream \in ShellStreams
    /\ pos = 0
    /\ sc = [NewSentinelCapture EXCEPT !.onDisplay = "term"]
    /\ h = NoHistory
    /\ tw = NoTwin
    /\ DriverOff

SpecShell == InitShell /\ [][NextParser]_vars

\* ------------------------------------------------ a lesson is opened again
\* openLessonByMeta on a freshly loaded lesson of up to MaxExercises
\* exercises, with a progress store that holds, for each exercise of it, no
\* record, a record with completed = true or one with completed = false, and
\* possibly a record of another lesson. h holds the store, the lesson object
\* and the App's exercise index.
StoreOf(f, other) ==
    {StoredRecord(1, k, f[k] = "done") : k \in {j \in DOMAIN f : f[j] # "none"}}
        \cup (IF other THEN {StoredRecord(2, 1, TRUE)} ELSE {})

FreshLesson(n) ==
    [id |-> 1,
     exercises |-> [k \in 1..n |->
                       createExercise(k, "output_contains", ExpectedFor("output_contains"))]]

InitRestore ==
    /\ \E n \in 1..MaxExercises, other \in BOOLEAN :
       \E f \in [1..MaxExercises -> {"none", "done", "undone"}] :
          h = [progress |-> StoreOf(f, other), lesson |-> FreshLesson(n),
               currentLesson |-> 0, currentExercise |-> 0]
    /\ sc = "off" /\ stream = <<>> /\ pos = 0 /\ tw = "off"
    /\ DriverOff

\* openLessonByMeta from the assignment of currentLesson to the end of the
\* restore loop.
OpenLesson ==
    /\ h.currentLesson = 0
    /\ h' = [h EXCEPT
                !.currentLesson = h.lesson.id,
                !.lesson.exercises = RestoredExercises(h.lesson, h.progress),
                !.currentExercise = RestoredIndex(h.lesson, h.progress)]
    /\ UNCHANGED <<sc, stream, pos, tw, driver>>

NextRestore == OpenLesson

SpecRestore == InitRestore /\ [][NextRestore]_vars

\* ------------------------------------------------------ the byte coalescer
\* The closure bootVM passes to vm.boot, on its own: h holds its locals
\* buffer and flushTimer, the text handed to processOutput so far (the calls
\* concatenated), and by what the flushes were caused.
FlushSize == 128

\* flushBuffer(): [c, out] with out the text handed to processOutput.
flushBuffer(c) ==
    [c |-> [c EXCEPT !.flushTimer = FALSE, !.buffer = <<>>],
     out |-> c.buffer]

\* Variant of onByte that never schedules the 4 ms flush.
onByteUnscheduled(c, byte) ==
    LET c1 == [c EXCEPT !.buffer = Append(@, byte)]
    IN  IF byte = LF \/ byte = CR \/ Len(c1.buffer) > FlushSize
        THEN flushBuffer(c1)
        ELSE [c |-> c1, out |-> <<>>]

\* The byte callback: [c, out].
onByte(c, byte) ==
    LET c1 == [c EXCEPT !.buffer = Append(@, byte)]
    IN  IF byte = LF \/ byte = CR \/ Len(c1.buffer) > FlushSize
        THEN flushBuffer(c1)
        ELSE IF ~c1.flushTimer
        THEN [c |-> [c1 EXCEPT !.flushTimer = TRUE], out |-> <<>>]
        ELSE [c |-> c1, out |-> <<>>]

\* n bytes without a newline.
Run(n) == [i \in 1..n |-> 97]

\* What the VM writes: a run of bytes that is empty, short, or about as long
\* as the buffer may grow, and then nothing, a newline, or a carriage return
\* and more bytes.
CoalescerStreams ==
    {Run(n) \o t : n \in {0, 2} \cup (FlushSize..MaxRun),
                   t \in {<<>>, <<LF>>, <<CR, 97, 97>>}}

InitCoalescer ==
    /\ stream \in CoalescerStreams
    /\ pos = 0
    /\ h = [buffer |-> <<>>, flushTimer |-> FALSE, handed |-> <<>>,
            late |-> FALSE,     \* a byte callback that appended LF or CR, or
                                \* left more than FlushSize bytes, did not flush
            bySize |-> FALSE,   \* a flush was caused by the size of the buffer
            byTimer |-> FALSE]  \* a flush was made by the timer
    /\ sc = "off" /\ tw = "off"
    /\ DriverOff

\* The history after a call that produced r.
Coalesced(r, byte, timer) ==
    [buffer |-> r.c.buffer, flushTimer |-> r.c.flushTimer,
     handed |-> h.handed \o r.out,
     late |-> h.late \/ (~timer /\ r.c.buffer # <<>>
                           /\ (byte \in {LF, CR} \/ Len(r.c.buffer) > FlushSize)),
     bySize |-> h.bySize \/ (~timer /\ r.out # <<>> /\ byte \notin {LF, CR}),
     byTimer |-> h.byTimer \/ (timer /\ r.out # <<>>)]

\* The VM writes its next byte.
ByteArrives ==
    /\ pos < Len(stream)
    /\ h' = Coalesced(onByte(h, stream[pos + 1]), stream[pos + 1], FALSE)
    /\ pos' = pos + 1
    /\ UNCHANGED <<sc, stream, tw, driver>>

\* 4 ms after the timer was set.
CoalescerTimerFires ==
    /\ h.flushTimer
    /\ h' = Coalesced(flushBuffer(h), 0, TRUE)
    /\ UNCHANGED <<sc, stream, pos, tw, driver>>

NextCoalescer == ByteArrives \/ CoalescerTimerFires

\* A timer set with setTimeout fires unless it is cleared first.
SpecCoalescer == InitCoalescer /\ [][NextCoalescer]_vars /\ WF_vars(CoalescerTimerFires)

\* ------------------------------------------------------------------ claims
\* C1: within one processOutput call every display callback is invoked before
\* every command callback.
C1_DisplayBeforeCommand == ~h.orderBroken

\* A call that wrote serial text to the display and delivered a CommandResult.
C1_Witness == h.sawBoth /\ Len(h.cmds) > 0 /\ Len(h.shown) > 0

\* C2 as stated: whenever no partial-sentinel timer is pending, the serial text
\* displayed so far is the input so far minus the bytes inside sentinel matches,
\* however the stream was cut and whenever the timer fired.
C2_DisplayIsInputMinusSentinels ==
    ~sc.partialTimer => h.shown = StripSentinels(SubSeq(stream, 1, pos))

\* C2 amended: the same, provided the partial-sentinel timer never fired between
\* the bytes of one sentinel (its first part buffered, the rest still to come).
C2_DisplayIsInputMinusSentinelsUnlessTimerSplit ==
    (~sc.partialTimer /\ ~h.timerSplit) =>
        h.shown = StripSentinels(SubSeq(stream, 1, pos))

\* The whole stream was delivered, a sentinel arrived in two calls, text was shown.
C2_Witness ==
    /\ pos = Len(stream) /\ ~sc.partialTimer /\ ~h.timerSplit
    /\ h.joined /\ Len(h.shown) > 0 /\ Len(h.shown) < pos

\* The CMD_END events that were not skipped, in order.
EmittedEnds == SelectSeq(h.events, LAMBDA e : e.kind = "end" /\ ~e.skipped)

\* C3: the bytes that arrive between a CMD_START event and the CMD_END event
\* that closes it are, each exactly once and in order, the captured text the
\* window's CommandResult is built from; a result is built from nothing else.
C3_WindowBytesCapturedOnce ==
    /\ \A k \in 1..Len(h.events) :
          LET e == h.events[k]
          IN  (e.kind = "end" /\ ~e.skipped) =>
                IF e.open
                THEN /\ k > 1
                     /\ h.events[k - 1].kind = "start"
                     /\ e.raw = SubSeq(stream, h.events[k - 1].to + 1, e.from - 1)
                ELSE e.raw = <<>>
    /\ Len(h.cmds) = Len(EmittedEnds)
    /\ \A i \in 1..Len(h.cmds) : h.cmds[i].raw = EmittedEnds[i].raw

\* A result built from a window that held a buffered partial sentinel.
C3_Witness ==
    \E i \in 1..Len(h.cmds) :
        /\ IndexOf(h.cmds[i].raw, SENTINEL_CHAR) > 0
        /\ EmittedEnds[i].open

\* The CommandResult values of a list of command callbacks.
Results(cmds) == [i \in 1..Len(cmds) |-> cmds[i].result]

\* C4: for every chunk sequence and every placement of muteUntilNextPrompt
\* calls, the parser emits the same CommandResults, sees the same sentinel
\* events and ends in the same state (but for the mute flag) as a parser that
\* reads the same chunks and is never muted.
C4_MuteDoesNotAffectCapture ==
    /\ Results(h.cmds) = Results(tw.h.cmds)
    /\ h.events = tw.h.events
    /\ [sc EXCEPT !.muteSerial = FALSE] = tw.sc

\* A result with captured output was emitted although its output was not shown.
C4_Witness ==
    /\ \E i \in 1..Len(h.cmds) : Len(h.cmds[i].result.stdout) > 0
    /\ h.suppressed

\* C5: once both parsers have read up to the end of a sentinel, the one that
\* received it in two consecutive calls has the same state, sentinel events,
\* CommandResults and display text as the one that received it in one call.
C5_SplitSentinelParsesAsWhole ==
    InSync =>
        /\ sc = tw.sc
        /\ h.events = tw.h.events
        /\ h.cmds = tw.h.cmds
        /\ h.shown = tw.h.shown

\* A CMD_END delivered in two calls produced a CommandResult.
C5_Witness ==
    /\ InSync /\ h.joined
    /\ Len(h.cmds) > 0 /\ Len(h.shown) > 0
    /\ h.events[Len(h.events)].kind = "end"

\* The lines other than the user's whose CMD_END the parser has still to see.
Outstanding(v) ==
    Len(SelectSeq(v.queue, LAMBDA c : c.origin # "user"))
        + (IF v.cur # "user" /\ IndexOf(v.wire, SENTINEL_CHAR) > 0 THEN 1 ELSE 0)

\* C6: a CommandResult delivered to handleCommand while validating is true
\* changes nothing (attempts, Validator, display callback, skipCaptures), at
\* most one Validator call is in flight, and no validation starts while
\* another holds the validating flag.
C6_ValidatingGuard ==
    /\ ~g.guardBroken
    /\ ~g.reentered
    /\ ValidatorCalls(acts) <= 1
    /\ InFlight(acts) <= 1
    /\ (InFlight(acts) = 1) = app.validating

\* A CommandResult arrived while a Validator call was in flight.
C6_Witness == g.ignored /\ ValidatorCalls(acts) = 1 /\ app.validating

\* C7: a CommandResult with empty trimmed stdout and returncode 0 that reaches
\* the bare-Enter guard makes no validation attempt and changes nothing when
\* the exercise is of an output kind, and starts a validation with attempts
\* incremented when it is of a filesystem kind.
C7_BareEnterGuard == ~g.bareWrong

\* Both cases have happened: a bare Enter on a filesystem-kind exercise, then
\* one on an output-kind exercise.
C7_Witness == g.bareSkipped /\ g.bareStarted

C9_ValidatorThrowIsFailedValidation ==
    g.thrown.seen =>
        /\ g.thrown.queued
        /\ g.thrown.cleared
        /\ g.thrown.kicked
        /\ g.thrown.restored
        /\ ~g.thrown.escaped

\* C10 as stated: a call of handleCommand whose lesson was left while its
\* Validator call was pending marks no exercise completed, records nothing in
\* the progress store, does not change the current exercise index and raises
\* no error.
C10_StaleResultDiscarded == g.stale = {}

\* C11 as stated: from the sending of the seed line to the CMD_START after the
\* seed script, no serial byte reaches the terminal, whenever the bytes of the
\* shell arrive relative to the end of the seeding wait.
C11_SeedingShowsNothing == ~g.seedShown

\* C12: a parser that was used and then reset delivers, for the same chunks,
\* timer firings and skipNextCapture calls at the same positions, the same
\* CommandResults in the same order as a freshly constructed parser.
C12_ResetReplaysSameResults ==
    tw.phase = "replay" => Results(h.cmds) = Results(tw.h.cmds)

\* The whole stream was replayed with a skipNextCapture call and a
\* CommandResult, by a parser whose first life had used up its skip and left
\* it capturing in another directory.
C12_Witness ==
    /\ tw.phase = "replay" /\ pos = Len(stream)
    /\ Len(h.cmds) > 0 /\ tw.skips > 0
    /\ tw.before.skipCaptures = 0 /\ tw.before.capturing

\* C13: ready is false from construction or reset until the first CMD_END is
\* processed and true from then on, through every processOutput,
\* skipNextCapture, muteUntilNextPrompt and queueSystemMessage call and
\* every timer, until reset; onReady is invoked exactly once, at that CMD_END.
C13_ReadyFromFirstEnd ==
    /\ sc.ready = tw.ended
    /\ tw.readyCalls = (IF tw.ended THEN 1 ELSE 0)

\* After a reset the parser is ready again, and since then it was muted, it
\* got a message queued, a further CMD_END and a skipNextCapture call.
C13_Witness ==
    /\ tw.resets > 0 /\ sc.ready /\ tw.readyCalls = 1
    /\ sc.muteSerial /\ Len(sc.displayQueue) > 0
    /\ tw.unskipped /\ sc.skipCaptures > 0

\* C14: skipCaptures is never negative: it is 1 after construction and after
\* reset, skipNextCapture adds 1, each CMD_END subtracts 1 while it is
\* positive, and no other operation or timer changes it.
C14_SkipCapturesNonNegative == sc.skipCaptures >= 0 /\ ~tw.skipOdd

\* Since a reset, a CMD_END was processed while skipCaptures was 0, and it is 0.
C14_Witness == tw.resets > 0 /\ tw.unskipped /\ sc.skipCaptures = 0

\* C15: the messages queued while ready are written by one display callback
\* holding all of them in the order they were queued, which is the first
\* callback of the next processOutput call (before its serial text) or the
\* flush timer's; no other callback writes a queued message, and a written
\* message is off the queue. While messages wait the flush timer is armed.
C15_QueueFlushedAtOnce ==
    /\ ~tw.queueOdd
    /\ Messages(sc.displayQueue) = tw.waiting
    /\ (Len(sc.displayQueue) > 0 => sc.flushTimer)

\* Two messages were written by one callback at the start of a processOutput
\* call that also wrote serial text, and the flush timer has written messages.
C15_Witness == tw.batched /\ tw.idleFlush

\* C16 as stated: a line is kept from the shell only when it begins with "/"
\* and one of the ten slash-command words; every other line, those beginning
\* with "/" among them, is sent to the VM.
C16_OnlyKnownSlashWordsIntercepted == ~g.swallowed /\ ~g.misrouted

\* The text is a decimal integer: an optional sign and digits, nothing else.
IsInteger(s) ==
    LET sign == IF Len(s) > 0 /\ s[1] \in {43, 45} THEN 1 ELSE 0
    IN  Len(s) > sign /\ DigitRun(s, sign + 1) = Len(s) - sign

\* The predicate parameter is malformed for the kind of the exercise.
Malformed(vt, expected) ==
    \/ vt \in {"output_regex", "cwd_regex"} /\ RegExpThrows(expected)
    \/ vt = "file_contains" /\ IndexOfText(expected, SEP, 1) = 0
    \/ vt = "exit_code" /\ ~IsInteger(Trim(expected))

Unreadable(vt, expected) ==
    \/ vt \in {"output_regex", "cwd_regex"} /\ RegExpThrows(expected)
    \/ vt = "file_contains" /\ IndexOfText(expected, SEP, 1) = 0
    \/ vt = "exit_code" /\ parseInt(Trim(expected)).nan

C18_FileContainsEitherPath ==
    LET expected == h.exercise.expected
        i == IndexOfText(expected, SEP, 1)
        path == SubSeq(expected, 1, i - 1)
        needle == Slice(expected, i + 2)
        places == {HOME \o <<SLASH>> \o path, h.result.cwd \o <<SLASH>> \o path}
    IN  (pos = 1 /\ h.exercise.validation_type = "file_contains" /\ i # 0) =>
            (h.out[1].passed <=>
                \E p \in places : fileExists(h.fs, p) /\ Includes(readFile(h.fs, p), needle))

\* C19 as stated: when the validation of exercise i of lesson L passes, the
\* call ends with that exercise completed, recorded under L with the XP of
\* calculateXp, and currentExercise = i + 1, whatever slash commands were
\* entered while the validation was pending.
C19_PassAdvancesToNext == ~g.passOdd

C21_HintRevealsNext ==
    /\ \A e \in 1..Len(h.app.exercises) :
         h.app.exercises[e].hints_used = Min(h.calls[e], Len(h.app.exercises[e].hints))
    /\ h.app.overlay.visible =>
         LET e == h.app.overlay.exercise
         IN  h.app.overlay.hints =
                SubSeq(h.app.exercises[e].hints, 1,
                       Min(h.calls[e], Len(h.app.exercises[e].hints)))

\* The multiplier of the XP formula in exact hundredths, floored at 25.
MultiplierInHundredths(difficulty, firstTry, hintsUsed) ==
    LET penalty == CASE hintsUsed = 0 -> 0 [] hintsUsed = 1 -> 10
                     [] hintsUsed = 2 -> 30 [] OTHER -> 50
        multiplier == 100 + 10 * (difficulty - 1) + (IF firstTry THEN 50 ELSE 0) - penalty
    IN  IF multiplier < 25 THEN 25 ELSE multiplier

\* C22 as stated: calculateXp returns floor(base x multiplier) with the
\* multiplier computed in exact hundredths, for every base >= 0, difficulty
\* in 1..4 and hintsUsed >= 0.
C22_XpIsExactHundredths ==
    Len(h.out) = 1 =>
        h.out[1] = (h.baseXp * MultiplierInHundredths(h.difficulty, h.firstTry,
                                                      h.hintsUsed)) \div 100

\* The double p is the quotient a / b up to rounding: b * p differs from a by
\* less than 2^-40.
IsQuotient(p, a, b) ==
    /\ LessFrom(ExactTimes(b, p), ExactAdd(FromInt(a), PowerOfTwo(36)), Limbs)
    /\ LessFrom(FromInt(a), ExactAdd(ExactTimes(b, p), PowerOfTwo(36)), Limbs)

\* C23: getLevelInfo returns the greatest index of LEVEL_TABLE whose threshold
\* is at most the total, with that entry's title and threshold as floor and,
\* below the top level, the next threshold as ceiling; levelProgress is
\* (total - floor) / (ceiling - floor), at least 0 and less than 1, below the
\* top level and 1.0 at the top level.
C23_LevelIsGreatestThreshold ==
    /\ Len(LEVEL_TABLE) = 17
    /\ Len(h.info) = 1 =>
         LET info == h.info[1]
         IN  /\ info.level \in 0..16
             /\ LEVEL_TABLE[info.level + 1].threshold <= h.totalXp
             /\ \A i \in 0..16 : LEVEL_TABLE[i + 1].threshold <= h.totalXp => i <= info.level
             /\ info.title = LEVEL_TABLE[info.level + 1].title
             /\ info.level_floor = LEVEL_TABLE[info.level + 1].threshold
             /\ info.level < 16 => info.level_ceiling = LEVEL_TABLE[info.level + 2].threshold
    /\ Len(h.progress) = 1 =>
         LET info == h.info[1]
             p == h.progress[1]
         IN  IF info.level < 16
             THEN /\ LessFrom(p, FromInt(1), Limbs)
                  /\ IsQuotient(p, h.totalXp - info.level_floor,
                                info.level_ceiling - info.level_floor)
             ELSE p = FromInt(1)

\* The progress of a total equal to the last threshold has been computed.
C23_Witness ==
    /\ Len(h.progress) = 1
    /\ h.totalXp = LEVEL_TABLE[17].threshold
    /\ h.info[1].level = 16

\* The body of the sentinel of an event: the text between its two 0x1F.
BodyOf(e) == SubSeq(stream, e.from + 1, e.to - 1)

\* The whole text after the second colon of a sentinel body.
AfterSecondColon(body) ==
    Slice(body, IndexFrom(body, COLON, IndexOf(body, COLON) + 1) + 1)

\* The captured text of a command callback after ANSI and control stripping.
Stripped(c) == StripCtrl(StripOsc(StripCsi(c.raw)))

\* stdout is the stripped capture without its first line, and the exit code
\* is the one of the CMD_END that closed the capture.
StdoutOf(c, e) ==
    /\ IF IndexOf(Stripped(c), LF) = 0
       THEN c.result.stdout = Stripped(c)
       ELSE \E n \in 1..Len(Stripped(c)) :
               /\ Stripped(c)[n] = LF
               /\ \A j \in 1..(n - 1) : Stripped(c)[j] # LF
               /\ c.result.stdout = SubSeq(Stripped(c), n + 1, Len(Stripped(c)))
    /\ c.raw = <<>> => c.result.stdout = <<>>
    /\ ~h.timerSplit => IndexOf(c.result.stdout, 36) = 0
    /\ c.result.returncode = ParseInt(SplitField(BodyOf(e), 2))

AllEnds == SelectSeq(h.events, LAMBDA e : e.kind = "end")

\* C28 as stated: the parser's cwd is the whole cwd field (from the second
\* colon of the body to the closing 0x1F) of the most recent CMD_END, or
\* /home/student before the first one, and every CommandResult carries the
\* cwd field of the CMD_END that closed it.
C28_CwdIsFieldOfLastEnd ==
    /\ sc.cwd = IF Len(AllEnds) = 0 THEN HOME
                ELSE AfterSecondColon(BodyOf(AllEnds[Len(AllEnds)]))
    /\ \A i \in 1..Len(h.cmds) :
          h.cmds[i].result.cwd = AfterSecondColon(BodyOf(EmittedEnds[i]))

\* The calls of seedLessonSetup that have muted the display and not yet
\* restored it.
Seeding(as) ==
    Cardinality({i \in DOMAIN as : as[i].type = "open" /\ as[i].pc \in {"write", "seedwait"}})

\* C25 as stated: whenever no validation and no seeding is in progress, the
\* parser's display callback is the terminal-writing callback installed at
\* boot.
C25_DisplayRestoredWhenQuiet ==
    (InFlight(acts) = 0 /\ Seeding(acts) = 0) => sc.onDisplay = "term"

\* C26: from muteUntilNextPrompt on, no serial byte is passed to the display
\* callback, by processOutput or by the partial-sentinel timer, until a
\* CMD_START is processed; that CMD_START clears the mute flag and the serial
\* bytes after it, those of the same chunk included, are displayed.
C26_MutedUntilCmdStart == ~h.muteOdd

\* A muted call has shown less than the unmuted parser, and a muted call has
\* shown the text that followed its CMD_START.
C26_Witness == h.suppressed /\ h.resumed

\* C27: capturing is false in a new parser and after reset; a call turns it
\* true only by a CMD_START and false only by a CMD_END or reset; and the
\* list of captured chunks is non-empty only while capturing is true.
C27_CapturingBetweenStartAndEnd ==
    /\ ~tw.captureOdd
    /\ (pos = 0 /\ tw.msgs = 0 /\ tw.resets = 0) => ~sc.capturing
    /\ ~sc.capturing => sc.capturedChunks = <<>>

\* After a reset a CMD_START has opened a capture that holds text.
C27_Witness == tw.resets > 0 /\ sc.capturing /\ sc.capturedChunks # <<>>

\* C29: reset leaves capturing false, no captured chunks, skipCaptures 1,
\* ready false, mute off, both message queues and the partial buffer empty
\* and neither timer armed; a timer is armed only while its buffer holds
\* something, so none armed before reset acts after it.
C29_ResetClearsEverything ==
    /\ ~tw.resetOdd
    /\ sc.partialTimer => sc.partialBuffer # <<>>
    /\ sc.flushTimer => sc.displayQueue # <<>>

\* reset was called during a capture with a timer armed.
C29_Witness == tw.resetBusy /\ tw.resets > 0

\* A step in which the partial-sentinel timer's callback runs.
TimerStep == sc.partialTimer /\ ~sc'.partialTimer /\ pos' = pos

\* The callback empties the buffer and appends its bytes to an open capture.
BufferFlushed ==
    /\ sc'.partialBuffer = <<>>
    /\ sc.capturing => sc'.capturedChunks = sc.capturedChunks \o sc.partialBuffer
    /\ ~sc.capturing => sc'.capturedChunks = sc.capturedChunks

\* C30 as stated: a non-empty partial buffer has its timer armed; the timer's
\* callback passes the buffered bytes to the display callback and appends
\* them to an open capture; and a non-empty buffer is eventually emptied.
C30_PartialEventuallyShown ==
    /\ [](sc.partialBuffer # <<>> => sc.partialTimer)
    /\ [][TimerStep => (BufferFlushed /\
                        SerialText(PartialTimeout(sc).calls) = sc.partialBuffer)]_vars
    /\ (sc.partialBuffer # <<>>) ~> (sc.partialBuffer = <<>>)

\* C30, amended: the same, but a muted parser passes nothing to the display
\* callback.
C30_PartialEventuallyFlushed ==
    /\ [](sc.partialBuffer # <<>> => sc.partialTimer)
    /\ [][TimerStep => (BufferFlushed /\
                        SerialText(PartialTimeout(sc).calls) =
                            (IF sc.muteSerial THEN <<>> ELSE sc.partialBuffer))]_vars
    /\ (sc.partialBuffer # <<>>) ~> (sc.partialBuffer = <<>>)

\* After the last byte of the stream the timer has moved a buffered partial
\* sentinel into the open capture.
C30_Witness ==
    /\ pos = Len(stream)
    /\ ~sc.partialTimer
    /\ IndexOf(sc.capturedChunks, SENTINEL_CHAR) > 0

\* C31: a message queued while ready is false is not written to the display
\* before ready; the call of processOutput in which the first CMD_END sets
\* ready writes all held messages, each once, in the order they were queued,
\* and no other call writes them.
C31_HeldMessagesAtReady ==
    /\ ~tw.heldOdd
    /\ ~sc.ready => Messages(sc.pendingMessages) = tw.held
    /\ sc.ready => tw.held = <<>> /\ sc.pendingMessages = <<>>

\* Two or more held messages were written when ready was set, after a reset.
C31_Witness == tw.heldShown /\ tw.resets > 0 /\ sc.ready

\* The CMD_END events that closed an open capture window.
ClosingEnds == SelectSeq(h.events, LAMBDA e : e.kind = "end" /\ e.open)

\* C39 as stated: a CMD_END processed while capturing is false is skipped, and
\* onCommand has been called at most once per CMD_END that closed an open
\* capture window.
C39_ResultOnlyForOpenCapture ==
    /\ \A i \in 1..Len(h.events) :
          h.events[i].kind = "end" /\ ~h.events[i].open => h.events[i].skipped
    /\ Len(h.cmds) <= Len(ClosingEnds)

\* The parser p, whose sentinel events and onCommand calls since construction
\* or reset are in hist, took its first CMD_END as a skip that set ready.
FirstEndSkipped(p, hist) ==
    LET ends == SelectSeq(hist.events, LAMBDA e : e.kind = "end")
    IN  /\ p.ready = (Len(ends) > 0)
        /\ Len(ends) > 0 => ends[1].skipped
        /\ Len(hist.cmds) =
              Len(SelectSeq(ends, LAMBDA e : ~e.skipped))

\* C40: while ready is false skipCaptures is at least 1, and the first CMD_END
\* after construction or reset is skipped: it sets ready and no CommandResult
\* is emitted for it, however many skipNextCapture calls came before.
C40_FirstEndIsSkipped ==
    /\ ~sc.ready => sc.skipCaptures >= 1
    /\ ~tw.sc.ready => tw.sc.skipCaptures >= 1
    /\ tw.phase = "replay" => FirstEndSkipped(sc, h) /\ FirstEndSkipped(tw.sc, tw.h)

\* After a reset, skipNextCapture was called before the first CMD_END, which
\* made the parser ready; a later CMD_END gave a CommandResult.
C40_Witness ==
    /\ tw.phase = "replay" /\ tw.early /\ sc.ready
    /\ Len(h.cmds) > 0

\* The progress store holds a completed record for exercise k of the lesson.
StoreSays(k) ==
    \E r \in h.progress :
        r.lesson = h.lesson.id /\ r.exercise = h.lesson.exercises[k].id /\ r.completed

\* C32: after a lesson is opened, every exercise the progress store records
\* as completed has completed = true, and the current index is one past the
\* last completed exercise (0 when none is completed, the exercise count when
\* all are).
C32_IndexAfterLastCompleted ==
    h.currentLesson # 0 =>
        /\ \A k \in DOMAIN h.lesson.exercises :
              StoreSays(k) => h.lesson.exercises[k].completed
        /\ h.currentExercise \in 0..Len(h.lesson.exercises)
        /\ h.currentExercise # 0 => StoreSays(h.currentExercise)
        /\ \A k \in DOMAIN h.lesson.exercises : k > h.currentExercise => ~StoreSays(k)
        /\ (\A k \in DOMAIN h.lesson.exercises : StoreSays(k))
              => h.currentExercise = Len(h.lesson.exercises)

\* A lesson of three exercises was opened with only the second one recorded
\* as completed (the first has a record with completed = false).
C32_Witness ==
    /\ h.currentLesson # 0 /\ Len(h.lesson.exercises) = 3
    /\ ~StoreSays(1) /\ StoreSays(2) /\ ~StoreSays(3)
    /\ \E r \in h.progress : r.lesson = 1 /\ r.exercise = 1 /\ ~r.completed
    /\ h.currentExercise = 2

\* C33: the text handed to processOutput followed by the buffer is the bytes
\* the VM has written, in order; a byte callback that appends LF or CR or
\* leaves more than 128 bytes flushes at once; otherwise the flush timer is
\* pending whenever the buffer is not empty; and a non-empty buffer is
\* eventually flushed.
C33_CoalescerLosesNothing ==
    /\ [](h.handed \o h.buffer = SubSeq(stream, 1, pos))
    /\ [](~h.late /\ Len(h.buffer) <= FlushSize
            /\ \A i \in 1..Len(h.buffer) : h.buffer[i] \notin {LF, CR})
    /\ [](h.buffer # <<>> => h.flushTimer)
    /\ (h.buffer # <<>>) ~> (h.buffer = <<>>)

\* All bytes of a stream were handed on, after a flush caused by the size of
\* the buffer and one made by the timer.
C33_Witness ==
    /\ pos = Len(stream) /\ h.handed = stream
    /\ h.bySize /\ h.byTimer
    /\ stream[Len(stream)] \notin {LF, CR}

\* C34 as stated: when the write of the progress store fails while a pass is
\* recorded, the exercise stays completed in memory, the current index
\* advances to the next exercise and the prompt kick is sent.
C34_WriteFailureDoesNotAbortPass == ~g.storeOdd /\ ~g.storeLost

\* C36 as stated: whenever a lesson is loaded the exercise index is between 0
\* and the number of its exercises.
C36_IndexWithinLesson ==
    app.currentLesson # 0 =>
        app.currentExercise \in 0..Len(objs[app.currentLesson].exercises)

\* C37: for one exercise object (one exercise of one opened lesson)
\* recordExercise is called at most once, and once it was called no
\* CommandResult starts a validation of that exercise, also not one that
\* arrives while the record is being written.
C37_RecordedOnce == ~g.rerecorded /\ ~g.revalidated

\* A CommandResult arrived while the pass of the current exercise was being
\* persisted; the pass was then completed.
C37_Witness == g.heldOff /\ g.passed /\ g.recorded # {} /\ acts = <<>>

\* C35 as stated: the CMD_END that closes a command the user typed is never
\* skipped, and the CMD_END of a line the App injected never gives a
\* CommandResult that starts a validation.
C35_SkipsMatchInjectedCommands == ~g.userSkipped /\ ~g.spurious

\* C38 as stated: every system message queued while ready is true is written
\* to the terminal; none is handed to the no-op display callback that the
\* App installs for seeding or validation, in particular not the
\* "Resetting sandbox..." of resetSandbox.
C38_QueuedMessagesReachTerminal == g.msgLost = {}

====
